---- MODULE Spec2Model ----
(***************************************************************************)
(* Verification model of the Hug SCM Python helpers.                       *)
(*                                                                         *)
(* Strings are sequences of one-character strings, so that strip, split,   *)
(* startswith and int() are computed the way Python computes them.         *)
(* Every component has its own variables and its own specification; a      *)
(* specification leaves the variables of the other components at rest.     *)
(***************************************************************************)
EXTENDS Integers, Sequences, FiniteSets, TLC

VARIABLES
    \* git/branch_select.py : parse_user_input
    puiArgs, puiResult,
    \* git/branch_select.py : multi_select_branches
    selArgs, selResult,
    \* git/branch_filter.py : filter_branches
    fltArgs, fltResult,
    \* deps.py : build_dependency_graph
    depsArgs,           \* the call's arguments and what git would answer
    depsPc,             \* position in the loop
    graph, visited, to_visit, processed_commits,
    current,            \* (current_commit, current_depth)
    target_files,       \* get_commit_files_cached(current_commit)
    filesCache,         \* the lru_cache of get_commit_files_cached
    clock,              \* seconds since `with timeout(30)` was entered
    alarmAt,            \* clock value at which SIGALRM is due, or NoAlarm
    phaseStart,         \* clock value at which the current phase began
    high_coupling,      \* what analyze_all_commits returned, if it was called
    \* log_json.py : parse_log_with_stats
    logArgs,            \* lines, include_stats, omit_body
    logPc,              \* "loop" while lines remain, then "last", then "done"
    lineIdx,            \* index of the next line of `for line in lines`
    commits, current_lines, current_numstats, in_numstat,
    \* ownership.py, co_changes.py, git/worktree.py : main
    runArgs,            \* the script, its command line and what it finds
    exitCode,           \* the process exit status, or Running
    \* git/worktree.py : parse_worktree_list
    wtArgs, wtResult,
    \* hug-scm-mcp-server : a request, its result, the subprocess calls made
    mcpArgs, mcpResult, mcpRan,
    \* json_transform.py: a commit_search call, the argv it ran, its result, a validation
    csArgs, csResult, csRan, csValid,
    \* hug_git_branch.py: a command line, the repository it runs in, what main printed
    brArgs, brEnv, brResult,
    \* co_changes.py: the commits and threshold, the matrix built, the correlations
    ccArgs, ccBuilt, ccResult,
    \* git/search.py: a search_items_by_fields call and what it returned
    srArgs, srResult

puiVars == <<puiArgs, puiResult>>
selVars == <<selArgs, selResult>>
fltVars == <<fltArgs, fltResult>>
depsVars == <<depsArgs, depsPc, graph, visited, to_visit, processed_commits,
              current, target_files, filesCache, clock, alarmAt, phaseStart,
              high_coupling>>
logVars == <<logArgs, logPc, lineIdx, commits, current_lines, current_numstats,
             in_numstat>>
runVars == <<runArgs, exitCode>>
wtVars == <<wtArgs, wtResult>>
mcpVars == <<mcpArgs, mcpResult, mcpRan>>
csVars == <<csArgs, csResult, csRan, csValid>>
brVars == <<brArgs, brEnv, brResult>>
ccVars == <<ccArgs, ccBuilt, ccResult>>
srVars == <<srArgs, srResult>>
vars == <<puiVars, selVars, fltVars, depsVars, logVars, runVars, wtVars, mcpVars, csVars, brVars, ccVars, srVars>>

\* A component that has not been called: no arguments, no result.
NoCall == [called |-> FALSE]
Pending == [status |-> "pending"]

(***************************************************************************)
(* Bounds                                                                  *)
(***************************************************************************)
MaxInputLen == 4
MaxItems == 3

(***************************************************************************)
(* Python str helpers                                                      *)
(***************************************************************************)
Whitespace == {" ", "\t", "\n"}
Digits == {"0", "1", "2", "3", "4", "5", "6", "7", "8", "9"}

DigitVal(c) ==
    CASE c = "0" -> 0 [] c = "1" -> 1 [] c = "2" -> 2 [] c = "3" -> 3
      [] c = "4" -> 4 [] c = "5" -> 5 [] c = "6" -> 6 [] c = "7" -> 7
      [] c = "8" -> 8 [] c = "9" -> 9

Min(a, b) == IF a <= b THEN a ELSE b
Max(a, b) == IF a >= b THEN a ELSE b

\* s[from..to] with Python's empty result when the bounds cross
Slice(s, from, to) == IF from > to THEN <<>> ELSE SubSeq(s, from, to)

RECURSIVE LStrip(_)
LStrip(s) ==
    IF s # <<>> /\ Head(s) \in Whitespace THEN LStrip(Tail(s)) ELSE s

RECURSIVE RStrip(_)
RStrip(s) ==
    IF s # <<>> /\ s[Len(s)] \in Whitespace
    THEN RStrip(SubSeq(s, 1, Len(s) - 1)) ELSE s

\* str.strip()
Strip(s) == RStrip(LStrip(s))

\* index (1-based) of the first occurrence of character c in s, 0 if none
RECURSIVE FindChar(_, _, _)
FindChar(s, c, i) ==
    IF i > Len(s) THEN 0
    ELSE IF s[i] = c THEN i ELSE FindChar(s, c, i + 1)

\* str.split(c) for a one-character separator
RECURSIVE SplitChar(_, _)
SplitChar(s, c) ==
    LET p == FindChar(s, c, 1)
    IN IF p = 0 THEN <<s>>
       ELSE <<Slice(s, 1, p - 1)>> \o SplitChar(Slice(s, p + 1, Len(s)), c)

\* value of a non-empty run of decimal digits
RECURSIVE DigitsVal(_, _)
DigitsVal(s, acc) ==
    IF s = <<>> THEN acc ELSE DigitsVal(Tail(s), 10 * acc + DigitVal(Head(s)))

\* int(s): surrounding whitespace is ignored, one optional sign, then one or
\* more decimal digits; anything else raises ValueError (ok = FALSE).
PyInt(s) ==
    LET t == Strip(s)
        signed == t # <<>> /\ Head(t) \in {"-", "+"}
        body == IF signed THEN Tail(t) ELSE t
        good == body # <<>> /\ \A i \in 1..Len(body) : body[i] \in Digits
    IN IF good
       THEN [ok |-> TRUE,
             val |-> IF signed /\ Head(t) = "-"
                     THEN 0 - DigitsVal(body, 0) ELSE DigitsVal(body, 0)]
       ELSE [ok |-> FALSE, val |-> 0]

\* str.lower() on the letters the model uses
LowerChar(c) == IF c = "A" THEN "a" ELSE IF c = "L" THEN "l" ELSE c
Lower(s) == [i \in 1..Len(s) |-> LowerChar(s[i])]

\* sorted(set): the elements of a finite set of integers in increasing order
RECURSIVE SortedSeq(_)
SortedSeq(S) ==
    IF S = {} THEN <<>>
    ELSE LET m == CHOOSE x \in S : \A y \in S : x <= y
         IN <<m>> \o SortedSeq(S \ {m})

\* all strings over an alphabet up to a length
StringsUpTo(alphabet, n) == UNION {[1..k -> alphabet] : k \in 0..n}

(***************************************************************************)
(* git/branch_select.py : parse_user_input                                 *)
(***************************************************************************)
\* mutant: the end of a range is not clamped to the last item
RangePartIndices_unclamped(part, num_items) ==
    LET p == FindChar(part, "-", 1)
        start == PyInt(Strip(Slice(part, 1, p - 1)))
        end == PyInt(Strip(Slice(part, p + 1, Len(part))))
        start_idx == Max(0, start.val - 1)
        end_idx == end.val - 1
    IN IF start.ok /\ end.ok THEN start_idx..end_idx ELSE {}

\* indices contributed by one comma-separated part that contains "-"
RangePartIndices(part, num_items) ==
    LET p == FindChar(part, "-", 1)
        start == PyInt(Strip(Slice(part, 1, p - 1)))
        end == PyInt(Strip(Slice(part, p + 1, Len(part))))
        start_idx == Max(0, start.val - 1)
        end_idx == Min(num_items - 1, end.val - 1)
    IN IF start.ok /\ end.ok THEN start_idx..end_idx ELSE {}

\* indices contributed by one comma-separated part without "-"
SinglePartIndices(part, num_items) ==
    LET num == PyInt(part)
        idx == num.val - 1
    IN IF num.ok /\ 0 <= idx /\ idx < num_items THEN {idx} ELSE {}

PartIndices(rawPart, num_items) ==
    LET part == Strip(rawPart)
    IN IF FindChar(part, "-", 1) # 0
       THEN RangePartIndices(part, num_items)
       ELSE SinglePartIndices(part, num_items)

parse_user_input(raw_input, num_items, allow_all) ==
    LET user_input == Strip(raw_input)
        parts == SplitChar(user_input, ",")
    IN IF user_input = <<>> THEN <<>>
       ELSE IF allow_all /\ Lower(user_input) \in {<<"a">>, <<"a", "l", "l">>}
       THEN [i \in 1..num_items |-> i - 1]
       ELSE SortedSeq(UNION {PartIndices(parts[k], num_items) : k \in 1..Len(parts)})

\* characters the selection strings are drawn from
InputAlphabet == {"0", "1", "3", "-", ",", " ", "a"}

PuiIdle == puiArgs = NoCall /\ puiResult = Pending

PuiInit ==
    /\ puiArgs \in [called : {TRUE},
                    user_input : StringsUpTo(InputAlphabet, MaxInputLen),
                    num_items : 0..MaxItems,
                    allow_all : BOOLEAN]
    /\ puiResult = Pending

ParseUserInput ==
    /\ puiArgs.called
    /\ puiResult = Pending
    /\ puiResult' = [status |-> "returned",
                     value |-> parse_user_input(puiArgs.user_input,
                                                puiArgs.num_items,
                                                puiArgs.allow_all)]
    /\ UNCHANGED puiArgs

\* C9: whenever parse_user_input has returned, its value is a strictly
\* increasing list of integers each within 0 <= idx < num_items.
C9_SortedUniqueInBounds ==
    puiResult.status = "returned" =>
        LET v == puiResult.value
        IN /\ \A i \in 1..Len(v) : 0 <= v[i] /\ v[i] < puiArgs.num_items
           /\ \A i \in 1..Len(v) - 1 : v[i] < v[i + 1]

\* "0-3" on two items: a zero start and an end past the upper bound
C9_Witness ==
    /\ puiResult.status = "returned"
    /\ puiArgs.user_input = <<"0", "-", "3">>
    /\ puiArgs.num_items = 2
    /\ puiResult.value = <<0, 1>>

(***************************************************************************)
(* Parallel arrays                                                         *)
(***************************************************************************)
MaxArrayLen == 2

\* len(set(array_lengths.values())) > 1
InconsistentLengths(lens) == Cardinality({lens[i] : i \in 1..Len(lens)}) > 1

\* branch names, as character strings
NameMain == <<"m", "a", "i", "n">>
NameDev == <<"d", "e", "v">>
BackupPrefix == <<"h", "u", "g", "-", "b", "a", "c", "k", "u", "p", "s", "/">>
NameBackup == BackupPrefix \o <<"x">>
NameNearBackup == <<"h", "u", "g", "-", "b", "a", "c", "k", "u", "p", "s">>
BranchNames == {NameMain, NameDev, NameBackup, NameNearBackup}

\* the values of the other four arrays are opaque; position k of every array
\* holds a value found nowhere else, so a misaligned copy is visible
HashValues == <<"h1", "h2", "h3", "h4">>
DateValues == <<"d1", "d2", "d3", "d4">>
SubjectValues == <<"s1", "s2", "s3", "s4">>
TrackValues == <<"t1", "t2", "t3", "t4">>
Prefixes(list, n) == {SubSeq(list, 1, k) : k \in 0..n}
ArraysUpTo(S, n) == UNION {[1..k -> S] : k \in 0..n}

\* str.startswith
StartsWith(s, prefix) ==
    Len(s) >= Len(prefix) /\ SubSeq(s, 1, Len(prefix)) = prefix

(***************************************************************************)
(* git/branch_select.py : multi_select_branches                            *)
(***************************************************************************)
\* an optional string: None / an unset variable / end of input are absent
Absent == [present |-> FALSE, value |-> <<>>]
Given(s) == [present |-> TRUE, value |-> s]
SelectionStrings == {<<>>, <<"2", ",", "1">>, <<"a">>}
OptionalSelections == {Absent} \cup {Given(s) : s \in SelectionStrings}

validate_indices(indices, num_items) ==
    SelectSeq(indices, LAMBDA idx : 0 <= idx /\ idx < num_items)

\* mutant: the environment variable wins over options.test_selection
GetSelection_envFirst(a) ==
    IF a.env.present THEN a.env.value
    ELSE IF a.test_selection.present THEN a.test_selection.value
    ELSE IF ~a.stdin.present THEN <<>>
    ELSE a.stdin.value

\* the selection string: options.test_selection, else the environment
\* variable HUG_TEST_NUMBERED_SELECTION, else input() with EOFError -> ""
GetSelection(a) ==
    IF a.test_selection.present THEN a.test_selection.value
    ELSE IF a.env.present THEN a.env.value
    ELSE IF ~a.stdin.present THEN <<>>
    ELSE a.stdin.value

multi_select_branches(a) ==
    LET num_items == Len(a.branches)
        lens == <<Len(a.branches), Len(a.hashes), Len(a.dates),
                  Len(a.subjects), Len(a.tracks)>>
        selection == GetSelection(a)
        selected_indices ==
            validate_indices(parse_user_input(selection, num_items, TRUE), num_items)
    IN IF num_items = 0
       THEN [status |-> "returned", branches |-> <<>>, selected_indices |-> <<>>,
             asked |-> FALSE, selection |-> <<>>]
       ELSE IF InconsistentLengths(lens)
       THEN [status |-> "ValueError"]
       ELSE [status |-> "returned",
             branches |-> [j \in 1..Len(selected_indices) |->
                              a.branches[selected_indices[j] + 1]],
             selected_indices |-> selected_indices,
             asked |-> TRUE, selection |-> selection]

SelIdle == selArgs = NoCall /\ selResult = Pending

SelInit ==
    /\ selArgs \in [called : {TRUE},
                    branches : ArraysUpTo({NameMain, NameDev}, MaxArrayLen),
                    hashes : Prefixes(HashValues, MaxArrayLen),
                    dates : Prefixes(DateValues, MaxArrayLen),
                    subjects : Prefixes(SubjectValues, MaxArrayLen),
                    tracks : Prefixes(TrackValues, MaxArrayLen),
                    test_selection : OptionalSelections,
                    env : OptionalSelections,
                    stdin : OptionalSelections]
    /\ selResult = Pending

MultiSelectBranches ==
    /\ selArgs.called
    /\ selResult = Pending
    /\ selResult' = multi_select_branches(selArgs)
    /\ UNCHANGED selArgs

SelLengths ==
    <<Len(selArgs.branches), Len(selArgs.hashes), Len(selArgs.dates),
      Len(selArgs.subjects), Len(selArgs.tracks)>>

\* C6: multi_select_branches raises ValueError whenever its five arrays do
\* not all have the same length, an empty branches array included.
C6_RaisesOnInconsistentLengths ==
    (selResult.status # "pending" /\ InconsistentLengths(SelLengths))
        => selResult.status = "ValueError"

\* C10: the selection string is options.test_selection when it is not None,
\* else the environment variable when it is set, else standard input; end of
\* input counts as the empty selection and selects nothing.
C10_SelectionSource ==
    (selResult.status = "returned" /\ selResult.asked) =>
        /\ selArgs.test_selection.present
              => selResult.selection = selArgs.test_selection.value
        /\ (~selArgs.test_selection.present /\ selArgs.env.present)
              => selResult.selection = selArgs.env.value
        /\ (~selArgs.test_selection.present /\ ~selArgs.env.present
               /\ selArgs.stdin.present)
              => selResult.selection = selArgs.stdin.value
        /\ (~selArgs.test_selection.present /\ ~selArgs.env.present
               /\ ~selArgs.stdin.present)
              => /\ selResult.selection = <<>>
                 /\ selResult.branches = <<>>
                 /\ selResult.selected_indices = <<>>

\* test_selection "a" overrides the environment's "2,1" and standard input
C10_Witness ==
    /\ selResult.status = "returned"
    /\ selArgs.branches = <<NameMain, NameDev>>
    /\ selArgs.test_selection = Given(<<"a">>)
    /\ selArgs.env = Given(<<"2", ",", "1">>)
    /\ selArgs.stdin = Given(<<>>)
    /\ selResult.selection = <<"a">>
    /\ selResult.selected_indices = <<0, 1>>

(***************************************************************************)
(* git/branch_filter.py : filter_branches                                  *)
(***************************************************************************)
\* mutant: the backup test matches "hug-backups" without the slash
KeepsBranch_noSlash(branch, current_branch, exclude_current, exclude_backup) ==
    /\ ~(exclude_current /\ branch = current_branch)
    /\ ~(exclude_backup /\ StartsWith(branch, SubSeq(BackupPrefix, 1, 11)))

\* the loop body's two `continue` tests: TRUE when position i is appended
KeepsBranch(branch, current_branch, exclude_current, exclude_backup) ==
    /\ ~(exclude_current /\ branch = current_branch)
    /\ ~(exclude_backup /\ StartsWith(branch, BackupPrefix))

\* the input positions the loop appends, in loop order
RECURSIVE KeptPositions(_, _)
KeptPositions(a, i) ==
    IF i > Len(a.branches) THEN <<>>
    ELSE (IF KeepsBranch(a.branches[i], a.current_branch,
                         a.exclude_current, a.exclude_backup)
          THEN <<i>> ELSE <<>>) \o KeptPositions(a, i + 1)

\* mutant: no length validation; a missing value is taken as ""
filter_branches_unvalidated(a) ==
    LET kept == KeptPositions(a, 1)
        At(arr, i) == IF i <= Len(arr) THEN arr[i] ELSE ""
    IN [status |-> "returned",
        branches |-> [j \in 1..Len(kept) |-> a.branches[kept[j]]],
        hashes |-> [j \in 1..Len(kept) |-> At(a.hashes, kept[j])],
        subjects |-> [j \in 1..Len(kept) |-> At(a.subjects, kept[j])],
        tracks |-> [j \in 1..Len(kept) |-> At(a.tracks, kept[j])],
        dates |-> [j \in 1..Len(kept) |-> At(a.dates, kept[j])]]

filter_branches(a) ==
    LET lens == <<Len(a.branches), Len(a.hashes), Len(a.subjects),
                  Len(a.tracks), Len(a.dates)>>
        kept == KeptPositions(a, 1)
    IN IF InconsistentLengths(lens)
       THEN [status |-> "ValueError"]
       ELSE [status |-> "returned",
             branches |-> [j \in 1..Len(kept) |-> a.branches[kept[j]]],
             hashes |-> [j \in 1..Len(kept) |-> a.hashes[kept[j]]],
             subjects |-> [j \in 1..Len(kept) |-> a.subjects[kept[j]]],
             tracks |-> [j \in 1..Len(kept) |-> a.tracks[kept[j]]],
             dates |-> [j \in 1..Len(kept) |->
                           IF kept[j] <= Len(a.dates) THEN a.dates[kept[j]] ELSE ""]]

FltIdle == fltArgs = NoCall /\ fltResult = Pending

FltInit ==
    /\ fltArgs \in [called : {TRUE},
                    branches : ArraysUpTo(BranchNames, MaxArrayLen),
                    hashes : Prefixes(HashValues, MaxArrayLen),
                    subjects : Prefixes(SubjectValues, MaxArrayLen),
                    tracks : Prefixes(TrackValues, MaxArrayLen),
                    dates : Prefixes(DateValues, MaxArrayLen),
                    current_branch : {NameMain, NameBackup, <<>>},
                    exclude_current : BOOLEAN,
                    exclude_backup : BOOLEAN]
    /\ fltResult = Pending

FilterBranches ==
    /\ fltArgs.called
    /\ fltResult = Pending
    /\ fltResult' = filter_branches(fltArgs)
    /\ UNCHANGED fltArgs

FltLengths ==
    <<Len(fltArgs.branches), Len(fltArgs.hashes), Len(fltArgs.subjects),
      Len(fltArgs.tracks), Len(fltArgs.dates)>>

\* C7: filter_branches raises ValueError, and returns nothing, whenever its
\* five input arrays do not all have the same length.
C7_FilterRaisesOnInconsistentLengths ==
    (fltResult.status # "pending" /\ InconsistentLengths(FltLengths))
        => fltResult.status = "ValueError"

\* two branches with a single hash
C7_Witness ==
    /\ fltResult.status = "ValueError"
    /\ Len(fltArgs.branches) = 2
    /\ Len(fltArgs.hashes) = 1
    /\ Len(fltArgs.subjects) = 2

\* the positions the claim says are kept, written from the claim's words
C8_IsBackup(branch) ==
    /\ Len(branch) >= 12
    /\ \A k \in 1..12 : branch[k] = BackupPrefix[k]
C8_ExpectedPositions ==
    SortedSeq({i \in 1..Len(fltArgs.branches) :
                 /\ fltArgs.exclude_current => fltArgs.branches[i] # fltArgs.current_branch
                 /\ fltArgs.exclude_backup => ~C8_IsBackup(fltArgs.branches[i])})

\* C8: filter_branches returns, in input order, exactly the positions whose
\* branch is not the current branch (exclude_current) and is not under
\* hug-backups/ (exclude_backup); every kept position carries the hash,
\* subject, track and date of the same input position.
C8_FilterKeepsAligned ==
    fltResult.status = "returned" =>
        LET e == C8_ExpectedPositions
            n == Len(e)
        IN /\ fltResult.branches = [j \in 1..n |-> fltArgs.branches[e[j]]]
           /\ fltResult.hashes = [j \in 1..n |-> fltArgs.hashes[e[j]]]
           /\ fltResult.subjects = [j \in 1..n |-> fltArgs.subjects[e[j]]]
           /\ fltResult.tracks = [j \in 1..n |-> fltArgs.tracks[e[j]]]
           /\ fltResult.dates = [j \in 1..n |-> fltArgs.dates[e[j]]]

\* the current branch and a backup branch are dropped in one call; the kept
\* branch brings the data of its own position
C8_Witness ==
    /\ fltResult.status = "returned"
    /\ fltArgs.exclude_current /\ fltArgs.exclude_backup
    /\ fltArgs.current_branch = NameMain
    /\ fltArgs.branches = <<NameMain, NameNearBackup>>
    /\ fltResult.branches = <<NameNearBackup>>
    /\ fltResult.hashes = <<"h2">>
    /\ fltResult.dates = <<"d2">>

(***************************************************************************)
(* deps.py : build_dependency_graph                                        *)
(***************************************************************************)
Commits == {"c1", "c2", "c3"}
Files == {"f1", "f2"}
MaxDepth == 2
MaxThreshold == 2
MaxResults == 2
MaxCommitsCap == 4
\* seconds by which the clock advances in one step
TimeStep == 15
\* seconds the overlap counting of one commit may take
MaxComputeTime == 15

AnalysisTimeout == 30
NotAnalysed == [analysed |-> FALSE]
GitTimeout == 60
NoAlarm == 0 - 1
NoCommit == <<"none", 0>>

\* build_commit_file_index: file -> commits of all_commits that modify it
build_commit_file_index(all_commits, commitFiles) ==
    [f \in Files |-> {c \in all_commits : f \in commitFiles[c]}]

\* overlap_counts of find_related_commits, filtered by the threshold
OverlapCount(commit_hash, other, files, file_to_commits) ==
    Cardinality({f \in files : other \in file_to_commits[f]})

RelatedSet(commit_hash, files, file_to_commits, threshold) ==
    {<<c, OverlapCount(commit_hash, c, files, file_to_commits)>> :
        c \in {d \in Commits \ {commit_hash} :
                  OverlapCount(commit_hash, d, files, file_to_commits) >= threshold
                  /\ OverlapCount(commit_hash, d, files, file_to_commits) > 0}}

\* related.sort(key=count, reverse=True): the sort is stable over the
\* insertion order of a dict filled by iterating sets of strings, so commits
\* with equal counts come in any order
SortedByOverlap(S) ==
    {r \in [1..Cardinality(S) -> S] :
        /\ \A i, j \in 1..Cardinality(S) : i # j => r[i] # r[j]
        /\ \A i \in 1..Cardinality(S) - 1 : r[i][2] >= r[i + 1][2]}

\* the lists find_related_commits can return
find_related_commits(commit_hash, files, file_to_commits, threshold) ==
    IF files = {} THEN {<<>>}
    ELSE SortedByOverlap(RelatedSet(commit_hash, files, file_to_commits, threshold))

\* mutant: the slice keeps one entry more
Truncate_oneMore(related, max_results) ==
    Slice(related, 1, Min(Len(related), max_results + 1))

\* related[:max_results]: a negative stop counts from the end of the list
Truncate(related, max_results) ==
    IF max_results >= 0
    THEN Slice(related, 1, Min(Len(related), max_results))
    ELSE Slice(related, 1, Max(Len(related) + max_results, 0))

\* mutant: the depth test is off by one
WithinDepth_offByOne(current_depth, depth) == current_depth <= depth

\* `if current_depth < depth`
WithinDepth(current_depth, depth) == current_depth < depth

\* mutant: the visited set is not consulted
AlreadyVisited_never(commit, seen) == FALSE

\* `if current_commit in visited`
AlreadyVisited(commit, seen) == commit \in seen

\* mutant: only the first related commit is considered for the queue
Enqueue_firstOnly(queue, related, seen, next_depth, max_commits) ==
    IF related = <<>> \/ Head(related)[1] \in seen \/ Len(queue) >= max_commits
    THEN queue
    ELSE Append(queue, <<Head(related)[1], next_depth>>)

\* the loop that appends the related commits to to_visit
RECURSIVE Enqueue(_, _, _, _, _)
Enqueue(queue, related, seen, next_depth, max_commits) ==
    IF related = <<>> THEN queue
    ELSE LET c == Head(related)[1]
             q == IF c \notin seen /\ Len(queue) < max_commits
                  THEN Append(queue, <<c, next_depth>>) ELSE queue
         IN Enqueue(q, Tail(related), seen, next_depth, max_commits)

\* graph[current_commit] = related
GraphWith(g, commit, related) ==
    [c \in DOMAIN g \cup {commit} |-> IF c = commit THEN related ELSE g[c]]

DepsIdle ==
    /\ depsArgs = NoCall
    /\ depsPc = "idle"
    /\ graph = <<>> /\ visited = {} /\ to_visit = <<>>
    /\ processed_commits = 0
    /\ current = NoCommit
    /\ target_files = {}
    /\ filesCache = <<>>
    /\ clock = 0 /\ alarmAt = NoAlarm /\ phaseStart = 0
    /\ high_coupling = NotAnalysed

DepsInit ==
    /\ \E commitFiles \in [Commits -> SUBSET Files],
          all_commits \in {Commits, Commits \ {"c1"}} :
         depsArgs \in [called : {TRUE},
                       commitFiles : {commitFiles},
                       root_commit : {"c1"},
                       file_to_commits : {build_commit_file_index(all_commits, commitFiles)},
                       depth : 0..MaxDepth,
                       threshold : 1..MaxThreshold,
                       max_results : 1..MaxResults,
                       max_commits : 1..MaxCommitsCap]
    /\ depsPc = "loop"
    /\ graph = <<>>
    /\ visited = {}
    /\ to_visit = <<<<depsArgs.root_commit, 0>>>>
    /\ processed_commits = 0
    /\ current = NoCommit
    /\ target_files = {}
    /\ filesCache = <<>>
    /\ clock = 0 /\ alarmAt = NoAlarm /\ phaseStart = 0
    /\ high_coupling = NotAnalysed

LoopCondition == to_visit # <<>> /\ processed_commits < depsArgs.max_commits
Analysing == depsPc \in {"enter", "git", "compute"}

\* pop a commit that was already visited: `continue`
SkipVisited ==
    /\ depsPc = "loop" /\ LoopCondition
    /\ AlreadyVisited(Head(to_visit)[1], visited)
    /\ to_visit' = Tail(to_visit)
    /\ UNCHANGED <<depsArgs, depsPc, graph, visited, processed_commits, current,
                   target_files, filesCache, clock, alarmAt, phaseStart,
                   high_coupling>>

\* pop a new commit, mark it visited and enter `with timeout(30)`
StartAnalysis ==
    /\ depsPc = "loop" /\ LoopCondition
    /\ ~AlreadyVisited(Head(to_visit)[1], visited)
    /\ current' = Head(to_visit)
    /\ to_visit' = Tail(to_visit)
    /\ visited' = visited \cup {Head(to_visit)[1]}
    /\ processed_commits' = processed_commits + 1
    /\ clock' = 0
    /\ alarmAt' = AnalysisTimeout
    /\ phaseStart' = 0
    /\ depsPc' = "enter"
    /\ UNCHANGED <<depsArgs, graph, target_files, filesCache, high_coupling>>

\* store the related list and queue its commits; leaves `with timeout(30)`
Record(related) ==
    LET limited == Truncate(related, depsArgs.max_results)
    IN /\ graph' = GraphWith(graph, current[1], limited)
       /\ to_visit' = IF WithinDepth(current[2], depsArgs.depth)
                      THEN Enqueue(to_visit, limited, visited, current[2] + 1,
                                   depsArgs.max_commits)
                      ELSE to_visit
       /\ depsPc' = "loop"
       /\ current' = NoCommit
       /\ target_files' = {}
       /\ clock' = 0 /\ alarmAt' = NoAlarm /\ phaseStart' = 0

\* run_git_command enters `with timeout(60)`: signal.alarm(60) replaces the
\* pending alarm, and the subprocess gets timeout=60
EnterGit ==
    /\ depsPc = "enter"
    /\ clock < alarmAt
    /\ current[1] \notin DOMAIN filesCache
    /\ depsPc' = "git"
    /\ alarmAt' = clock + GitTimeout
    /\ phaseStart' = clock
    /\ UNCHANGED <<depsArgs, graph, visited, to_visit, processed_commits, current,
                   target_files, filesCache, clock, high_coupling>>

\* get_commit_files_cached finds the commit in its cache: no git command
\* runs, and the alarm of `with timeout(30)` stays armed while the overlaps
\* are counted
CacheHit ==
    /\ depsPc = "enter"
    /\ clock < alarmAt
    /\ current[1] \in DOMAIN filesCache
    /\ target_files' = filesCache[current[1]]
    /\ depsPc' = "compute"
    /\ phaseStart' = clock
    /\ UNCHANGED <<depsArgs, graph, visited, to_visit, processed_commits, current,
                   filesCache, clock, alarmAt, high_coupling>>

\* SIGALRM of `with timeout(30)` arrives while it is still armed, before
\* run_git_command's try block is entered or, after a cache hit, while the
\* overlaps are counted: the TimeoutError reaches build_dependency_graph,
\* related = []
OuterTimeout ==
    /\ depsPc \in {"enter", "compute"}
    /\ alarmAt # NoAlarm /\ clock >= alarmAt
    /\ Record(<<>>)
    /\ UNCHANGED <<depsArgs, visited, processed_commits, filesCache, high_coupling>>

\* what get_commit_files_cached remembers for the commit
CacheWith(cache, commit, files) ==
    [c \in DOMAIN cache \cup {commit} |-> IF c = commit THEN files ELSE cache[c]]

\* git diff-tree ends before the timeout, with its output or with a non-zero
\* exit status (CalledProcessError -> ""); __exit__ cancels the alarm
GitReturn ==
    /\ depsPc = "git"
    /\ clock < phaseStart + GitTimeout
    /\ \E ok \in BOOLEAN :
         target_files' = IF ok THEN depsArgs.commitFiles[current[1]] ELSE {}
    /\ filesCache' = CacheWith(filesCache, current[1], target_files')
    /\ alarmAt' = NoAlarm
    /\ phaseStart' = clock
    /\ depsPc' = "compute"
    /\ UNCHANGED <<depsArgs, graph, visited, to_visit, processed_commits, current, clock,
                   high_coupling>>

\* subprocess.TimeoutExpired or the alarm's TimeoutError after 60 seconds:
\* both are caught in run_git_command, which returns ""
GitTimesOut ==
    /\ depsPc = "git"
    /\ clock >= phaseStart + GitTimeout
    /\ target_files' = {}
    /\ filesCache' = CacheWith(filesCache, current[1], {})
    /\ alarmAt' = NoAlarm
    /\ phaseStart' = clock
    /\ depsPc' = "compute"
    /\ UNCHANGED <<depsArgs, graph, visited, to_visit, processed_commits, current, clock,
                   high_coupling>>

\* find_related_commits returns; the list is truncated, stored and queued
FinishAnalysis ==
    /\ depsPc = "compute"
    /\ alarmAt = NoAlarm \/ clock < alarmAt
    /\ \E related \in find_related_commits(current[1], target_files,
                                           depsArgs.file_to_commits,
                                           depsArgs.threshold) :
         Record(related)
    /\ UNCHANGED <<depsArgs, visited, processed_commits, filesCache, high_coupling>>

\* the next instant at which the running phase is cut short
Deadline ==
    CASE depsPc = "enter" -> alarmAt
      [] depsPc = "git" -> phaseStart + GitTimeout
      [] depsPc = "compute" ->
           IF alarmAt = NoAlarm THEN phaseStart + MaxComputeTime
           ELSE Min(phaseStart + MaxComputeTime, alarmAt)

\* time passes while a commit is analysed
Tick ==
    /\ Analysing
    /\ clock < Deadline
    /\ clock' = Min(clock + TimeStep, Deadline)
    /\ UNCHANGED <<depsArgs, depsPc, graph, visited, to_visit, processed_commits,
                   current, target_files, filesCache, alarmAt, phaseStart,
                   high_coupling>>

\* the while condition is false: return graph
ReturnGraph ==
    /\ depsPc = "loop" /\ ~LoopCondition
    /\ depsPc' = "done"
    /\ UNCHANGED <<depsArgs, graph, visited, to_visit, processed_commits, current,
                   target_files, filesCache, clock, alarmAt, phaseStart,
                   high_coupling>>

\* the commit lists analyze_all_commits is called with
AnalyzeLists == {<<"c1">>}

\* what the cache holds after the lookups of analyze_all_commits: a commit
\* already cached keeps its entry
CacheAfter(cache, files) ==
    [c \in DOMAIN cache \cup DOMAIN files |->
        IF c \in DOMAIN cache THEN cache[c] ELSE files[c]]

\* high_coupling of analyze_all_commits: related[:max_results] for every
\* commit whose related list is not empty
HighCoupling(related, max_results) ==
    [c \in {d \in DOMAIN related : related[d] # <<>>} |->
        Truncate(related[c], max_results)]

\* analyze_all_commits(commits, file_to_commits, threshold, max_results),
\* called before the traversal in the same process: every commit is looked
\* up through get_commit_files_cached, outside any timeout(30); a git query
\* that fails or times out answers with no files
AnalyzeAllCommits ==
    /\ depsPc = "loop" /\ processed_commits = 0
    /\ high_coupling = NotAnalysed
    /\ \E listed \in AnalyzeLists :
       \E failed \in SUBSET {listed[i] : i \in 1..Len(listed)} :
       \E files \in {CacheAfter(filesCache,
                                [c \in {listed[i] : i \in 1..Len(listed)} |->
                                    IF c \in failed THEN {}
                                    ELSE depsArgs.commitFiles[c]])} :
       \E related \in [{listed[i] : i \in 1..Len(listed)} ->
                          UNION {find_related_commits(listed[i], files[listed[i]],
                                                      depsArgs.file_to_commits,
                                                      depsArgs.threshold) :
                                    i \in 1..Len(listed)}] :
          /\ \A c \in DOMAIN related :
                 related[c] \in find_related_commits(c, files[c],
                                                     depsArgs.file_to_commits,
                                                     depsArgs.threshold)
          /\ filesCache' = files
          /\ high_coupling' = [analysed |-> TRUE,
                               coupling |-> HighCoupling(related, depsArgs.max_results)]
    /\ UNCHANGED <<depsArgs, depsPc, graph, visited, to_visit, processed_commits,
                   current, target_files, clock, alarmAt, phaseStart>>

\* the commits a stored related list names
RelatedCommits(related) == {related[i][1] : i \in 1..Len(related)}

\* commits reachable from the root by at most n recorded related-commit links
RECURSIVE ReachWithin(_)
ReachWithin(n) ==
    IF n <= 0 THEN {depsArgs.root_commit}
    ELSE LET R == ReachWithin(n - 1)
         IN R \cup {b \in Commits :
                      \E a \in R \cap DOMAIN graph : b \in RelatedCommits(graph[a])}

\* C2: every key of the graph, and every commit under analysis, is the root
\* or is reachable from the root by at most `depth` related-commit links.
C2_KeysWithinDepth ==
    depsArgs.called =>
        /\ \A k \in DOMAIN graph : k \in ReachWithin(depsArgs.depth)
        /\ Analysing => current[1] \in ReachWithin(depsArgs.depth)

\* depth 1: c2 is a key, c3 is related to c2 only and is never analysed
C2_Witness ==
    /\ depsPc = "done"
    /\ depsArgs.depth = 1
    /\ DOMAIN graph = {"c1", "c2"}
    /\ "c3" \in RelatedCommits(graph["c2"])
    /\ "c3" \notin RelatedCommits(graph["c1"])

\* C3: build_dependency_graph terminates, and no commit is analysed twice:
\* a commit whose analysis starts was not visited before.
C3_Terminates ==
    /\ <>(depsPc = "done")
    /\ [][(depsPc = "loop" /\ depsPc' = "enter") => current'[1] \notin visited]_vars

\* the traversal ended on an index in which c1 and c2 are related to each other
C3_Witness ==
    /\ depsPc = "done"
    /\ {"c1", "c2"} \subseteq DOMAIN graph
    /\ "c2" \in RelatedCommits(graph["c1"])
    /\ "c1" \in RelatedCommits(graph["c2"])

\* C4: the analysis of a commit is interrupted no later than 30 seconds
\* after it starts.
C4_AnalysisWithinTimeout ==
    Analysing => clock <= AnalysisTimeout

DepsNext ==
    \/ AnalyzeAllCommits
    \/ SkipVisited \/ StartAnalysis \/ EnterGit \/ CacheHit \/ OuterTimeout
    \/ GitReturn \/ GitTimesOut \/ FinishAnalysis \/ Tick \/ ReturnGraph

(***************************************************************************)
(* log_json.py : parse_log_with_stats, parse_single_commit                 *)
(*                                                                         *)
(* A line is a sequence of atoms: the separator |~| is one atom, a 40-digit *)
(* hexadecimal commit hash is one atom, a word is one atom, and every      *)
(* whitespace or punctuation character is an atom of its own.              *)
(***************************************************************************)
MaxLines == 4

SEP == "|~|"
TAB == "\t"
NL == "\n"
\* atoms that are 40 hexadecimal characters
Hashes == {"H1", "H2"}
Arrow == <<" ", "-", ">", " ">>

\* line.rstrip('\n')
RECURSIVE RStripNewline(_)
RStripNewline(s) ==
    IF s # <<>> /\ s[Len(s)] = NL
    THEN RStripNewline(SubSeq(s, 1, Len(s) - 1)) ELSE s

\* str.count for a one-atom pattern
CountAtom(s, a) == Cardinality({i \in 1..Len(s) : s[i] = a})

\* str.rfind for a one-atom pattern: last position, 0 if none
RFindAtom(s, a) ==
    IF \E i \in 1..Len(s) : s[i] = a
    THEN CHOOSE i \in 1..Len(s) : s[i] = a /\ \A j \in (i + 1)..Len(s) : s[j] # a
    ELSE 0

\* position of the n-th occurrence of atom a in s, 0 if there are fewer
RECURSIVE NthAtom(_, _, _, _)
NthAtom(s, a, n, from) ==
    LET p == FindChar(s, a, from)
    IN IF p = 0 THEN 0
       ELSE IF n = 1 THEN p ELSE NthAtom(s, a, n - 1, p + 1)

\* str.find for a pattern of several atoms: first position, 0 if none
FindSub(s, pat) ==
    LET hits == {i \in 1..(Len(s) - Len(pat) + 1) : SubSeq(s, i, i + Len(pat) - 1) = pat}
    IN IF hits = {} THEN 0 ELSE CHOOSE i \in hits : \A j \in hits : i <= j

\* str.split(pat) for a pattern of several atoms
RECURSIVE SplitSub(_, _)
SplitSub(s, pat) ==
    LET p == FindSub(s, pat)
    IN IF p = 0 THEN <<s>>
       ELSE <<Slice(s, 1, p - 1)>> \o SplitSub(Slice(s, p + Len(pat), Len(s)), pat)

\* str.split(): the maximal runs of non-whitespace atoms
RECURSIVE SplitWhitespace(_)
SplitWhitespace(s) ==
    LET t == LStrip(s)
        ends == {i \in 1..Len(t) : t[i] \in Whitespace}
        e == IF ends = {} THEN Len(t) + 1 ELSE CHOOSE i \in ends : \A j \in ends : i <= j
    IN IF t = <<>> THEN <<>>
       ELSE <<Slice(t, 1, e - 1)>> \o SplitWhitespace(Slice(t, e, Len(t)))

\* '\n'.join(lines)
RECURSIVE JoinLines(_)
JoinLines(ls) ==
    IF ls = <<>> THEN <<>>
    ELSE IF Len(ls) = 1 THEN ls[1]
    ELSE ls[1] \o <<NL>> \o JoinLines(Tail(ls))

\* re.match(r'^[0-9a-f]{40}\|~\|', line)
IsCommitHeader(line) == Len(line) >= 2 /\ line[1] \in Hashes /\ line[2] = SEP

\* field_count >= 14
MinFields == 14
HasEnoughFields(line) == CountAtom(line, SEP) + 1 >= MinFields

\* a numstat line: a tab, no separator, at least three tab-separated parts
IsNumstatLine(line) ==
    /\ CountAtom(line, TAB) > 0
    /\ CountAtom(line, SEP) = 0
    /\ Len(SplitChar(line, TAB)) >= 3

\* the refs list of parse_single_commit
RefNames(ref) ==
    LET r == Strip(ref)
        parts == SplitSub(r, Arrow)
    IN IF FindSub(r, Arrow) # 0
       THEN <<Strip(parts[1]), Strip(parts[2])>>
       ELSE <<r>>

RECURSIVE RefsOf(_)
RefsOf(refParts) ==
    IF refParts = <<>> THEN <<>>
    ELSE RefNames(Head(refParts)) \o RefsOf(Tail(refParts))

ParseRefs(refs_str) ==
    IF refs_str # <<>> /\ CountAtom(refs_str, TAB) = 0
    THEN RefsOf(SplitChar(refs_str, ","))
    ELSE <<>>

\* one numstat line: its counts, or not valid (ValueError, fewer than 3 parts)
ParseNumstat(numstat_line) ==
    LET parts == SplitChar(numstat_line, TAB)
        add == IF parts[1] = <<"-">> THEN [ok |-> TRUE, val |-> 0] ELSE PyInt(parts[1])
        delete == IF parts[2] = <<"-">> THEN [ok |-> TRUE, val |-> 0] ELSE PyInt(parts[2])
    IN IF Len(parts) >= 3 /\ add.ok /\ delete.ok
       THEN [ok |-> TRUE, add |-> add.val, delete |-> delete.val, filename |-> parts[3]]
       ELSE [ok |-> FALSE, add |-> 0, delete |-> 0, filename |-> <<>>]

RECURSIVE FilesOf(_)
FilesOf(numstat_lines) ==
    IF numstat_lines = <<>> THEN <<>>
    ELSE LET n == ParseNumstat(Head(numstat_lines))
         IN (IF n.ok
             THEN <<[filename |-> n.filename, status |-> "modified",
                     additions |-> n.add, deletions |-> n.delete,
                     changes |-> n.add + n.delete]>>
             ELSE <<>>) \o FilesOf(Tail(numstat_lines))

RECURSIVE SumSeq(_)
SumSeq(ns) == IF ns = <<>> THEN 0 ELSE Head(ns) + SumSeq(Tail(ns))

StatsOf(files) ==
    [files_changed |-> Len(files),
     insertions |-> SumSeq([i \in 1..Len(files) |-> files[i].additions]),
     deletions |-> SumSeq([i \in 1..Len(files) |-> files[i].deletions])]

\* the commit dictionary built from the parsed pieces
CommitRecord(fields, refs, parents_str, body, files, include_stats) ==
    [ok |-> TRUE,
     sha |-> fields[1], sha_short |-> fields[2],
     author |-> [name |-> fields[3], email |-> fields[4],
                 date |-> fields[7], date_relative |-> fields[8]],
     committer |-> [name |-> fields[5], email |-> fields[6],
                    date |-> fields[9], date_relative |-> fields[10]],
     message |-> IF body # <<>> THEN fields[12] \o <<NL, NL>> \o body
                 ELSE fields[12],
     subject |-> fields[12],
     body |-> IF body # <<>> THEN Given(body) ELSE Absent,
     tree |-> [sha |-> fields[11]],
     parents |-> SplitWhitespace(parents_str),
     refs |-> IF refs # <<>> THEN Given(refs) ELSE Absent,
     has_stats |-> include_stats,
     stats |-> IF include_stats THEN StatsOf(files) ELSE StatsOf(<<>>),
     files |-> IF include_stats THEN files ELSE <<>>]

\* the body: what follows the first newline of the stripped %B text
BodyAfter(stripped, nl) ==
    IF nl = 0 THEN <<>> ELSE Strip(Slice(stripped, nl + 1, Len(stripped)))
BodyText(stripped) == BodyAfter(stripped, FindChar(stripped, NL, 1))

\* the text between the 12th separator and the second-last one is %B
CommitFromSecondLast(fields, full_text, sep12, refs_str, remaining, second_last_sep, numstat_lines, include_stats, omit_body) ==
    IF second_last_sep = 0 THEN [ok |-> FALSE]
    ELSE CommitRecord(fields, ParseRefs(refs_str),
                      Strip(Slice(remaining, second_last_sep + 1, Len(remaining))),
                      (IF omit_body THEN <<>>
                       ELSE BodyText(Strip(Slice(full_text, sep12 + 1,
                                                 second_last_sep - 1)))),
                      FilesOf(numstat_lines), include_stats)

\* the refs follow the last separator, the parents the second-last one
CommitFromSeps(first_line, full_text, sep12, last_sep, numstat_lines, include_stats, omit_body) ==
    IF sep12 = 0 \/ last_sep = 0 THEN [ok |-> FALSE]
    ELSE CommitFromSecondLast(SplitChar(Slice(first_line, 1, sep12 - 1), SEP),
                              full_text, sep12,
                              Strip(Slice(full_text, last_sep + 1, Len(full_text))),
                              Slice(full_text, 1, last_sep - 1),
                              RFindAtom(Slice(full_text, 1, last_sep - 1), SEP),
                              numstat_lines, include_stats, omit_body)

CommitFromText(first_line, full_text, numstat_lines, include_stats, omit_body) ==
    CommitFromSeps(first_line, full_text,
                   NthAtom(first_line, SEP, 12, 1), RFindAtom(full_text, SEP),
                   numstat_lines, include_stats, omit_body)

\* parse_single_commit: [ok |-> FALSE] stands for None
parse_single_commit(ls, numstat_lines, include_stats, omit_body) ==
    IF ls = <<>> THEN [ok |-> FALSE]
    ELSE CommitFromText(ls[1], JoinLines(ls), numstat_lines, include_stats, omit_body)

\* `if current_lines:` parse the pending commit and append it unless None
FlushCommit(done, cur_lines, cur_numstats, include_stats, omit_body) ==
    IF cur_lines = <<>> THEN done
    ELSE LET commit == parse_single_commit(cur_lines, cur_numstats,
                                           include_stats, omit_body)
         IN IF commit.ok THEN Append(done, commit) ELSE done

\* the lines the input is drawn from
Header12(h) ==
    <<h, SEP, "abc1234", SEP, "An", SEP, "ae", SEP, "Cn", SEP, "ce", SEP,
      "ad", SEP, "ar", SEP, "cd", SEP, "cr", SEP, "tree", SEP, "Subj">>
\* a whole commit on one line: header, body, parents, refs
FullLine(h) ==
    Header12(h) \o <<SEP, "Subj", SEP, "P1", SEP, "HEAD", " ", "-", ">", " ", "main", NL>>
\* first line of a commit whose body spans several lines
BodyStartLine(h) == Header12(h) \o <<SEP, "Subj", NL>>
BodyLine == <<"more", " ", "text", NL>>
BlankLine == <<NL>>
\* last line of a body, followed by the parents and refs trailer
TrailerLine == <<"end", SEP, "P2", " ", "P3", SEP, "tag", NL>>
NumstatLine == <<"1", "0", TAB, "3", TAB, "file", NL>>
\* a binary file: "-" for both counts
BinaryNumstatLine == <<"-", TAB, "-", TAB, "img", NL>>
\* three tab-separated parts whose first is no number
BadNumstatLine == <<"x", TAB, "3", TAB, "file", NL>>
\* a header with too few fields
ShortHeaderLine(h) == <<h, SEP, "abc1234", SEP, "An", NL>>

LineVocabulary ==
    {FullLine("H1"), FullLine("H2"), BodyStartLine("H1"), BodyLine, BlankLine,
     TrailerLine, NumstatLine, BinaryNumstatLine, BadNumstatLine,
     ShortHeaderLine("H2")}

LogIdle ==
    /\ logArgs = NoCall
    /\ logPc = "idle"
    /\ lineIdx = 0
    /\ commits = <<>> /\ current_lines = <<>> /\ current_numstats = <<>>
    /\ in_numstat = FALSE

LogInit ==
    /\ logArgs \in [called : {TRUE},
                    lines : ArraysUpTo(LineVocabulary, MaxLines),
                    include_stats : BOOLEAN,
                    omit_body : BOOLEAN]
    /\ logPc = "loop"
    /\ lineIdx = 1
    /\ commits = <<>> /\ current_lines = <<>> /\ current_numstats = <<>>
    /\ in_numstat = FALSE

\* the loop's local state before the first line
LogStart ==
    [commits |-> <<>>, current_lines |-> <<>>, current_numstats |-> <<>>,
     in_numstat |-> FALSE]

\* a commit header line: the pending commit is parsed and appended, and a
\* header of enough fields starts the next commit
LogHeader(flushed, line) ==
    IF HasEnoughFields(line)
    THEN [flushed EXCEPT !.current_lines = <<line>>,
                         !.current_numstats = <<>>,
                         !.in_numstat = FALSE]
    ELSE flushed

\* a line that is no commit header
LogOther(st, line) ==
    IF st.current_lines = <<>>
    THEN st
    ELSE IF IsNumstatLine(line)
    THEN [st EXCEPT !.current_numstats = Append(@, line), !.in_numstat = TRUE]
    ELSE IF ~st.in_numstat \/ Strip(line) # <<>>
    THEN [st EXCEPT !.current_lines = Append(@, line)]
    ELSE st

\* the body of `for line in lines`, from the loop's state to its next state
LogLineStripped(st, line, include_stats, omit_body) ==
    IF IsCommitHeader(line)
    THEN LogHeader([st EXCEPT !.commits =
                       FlushCommit(st.commits, st.current_lines,
                                   st.current_numstats,
                                   include_stats, omit_body)], line)
    ELSE LogOther(st, line)

LogLine(st, rawLine, include_stats, omit_body) ==
    LogLineStripped(st, RStripNewline(rawLine), include_stats, omit_body)

RECURSIVE LogLoop(_, _, _, _, _)
LogLoop(st, lines, i, include_stats, omit_body) ==
    IF i > Len(lines) THEN st
    ELSE LogLoop(LogLine(st, lines[i], include_stats, omit_body),
                 lines, i + 1, include_stats, omit_body)

\* the list parse_log_with_stats returns
parse_log_with_stats(lines, include_stats, omit_body) ==
    LET st == LogLoop(LogStart, lines, 1, include_stats, omit_body)
    IN FlushCommit(st.commits, st.current_lines, st.current_numstats,
                   include_stats, omit_body)

\* one iteration of `for line in lines`
ProcessLine ==
    /\ logPc = "loop"
    /\ lineIdx <= Len(logArgs.lines)
    /\ \E st \in {LogLine([commits |-> commits, current_lines |-> current_lines,
                             current_numstats |-> current_numstats,
                             in_numstat |-> in_numstat],
                            logArgs.lines[lineIdx],
                            logArgs.include_stats, logArgs.omit_body)} :
          /\ commits' = st.commits
          /\ current_lines' = st.current_lines
          /\ current_numstats' = st.current_numstats
          /\ in_numstat' = st.in_numstat
    /\ lineIdx' = lineIdx + 1
    /\ UNCHANGED <<logArgs, logPc>>

\* after the loop: process the last commit and return
ProcessLast ==
    /\ logPc = "loop"
    /\ lineIdx > Len(logArgs.lines)
    /\ commits' = FlushCommit(commits, current_lines, current_numstats,
                              logArgs.include_stats, logArgs.omit_body)
    /\ logPc' = "done"
    /\ UNCHANGED <<logArgs, lineIdx, current_lines, current_numstats, in_numstat>>

\* a commit whose body spans several physical lines: the twelve header
\* fields and the start of the body, continuation lines, and a last line that
\* ends the body and carries |~|parents|~|refs
IsMultiLineCommit(ls) ==
    /\ Len(ls) >= 2
    /\ ls[1] = BodyStartLine("H1")
    /\ ls[Len(ls)] = TrailerLine
    /\ \A i \in 2..(Len(ls) - 1) : ls[i] = BodyLine

\* the continuation text of such a commit: the lines after the first, up to
\* the trailer's first separator
C1_ContinuationText(ls) ==
    JoinLines([i \in 1..(Len(ls) - 1) |->
                 IF i = Len(ls) - 1 THEN <<"end">> ELSE <<"more", " ", "text">>])

\* C1: a commit whose body spans several physical lines is reconstructed as
\* exactly one commit object, whose body is the continuation text and whose
\* parents and refs come from the trailer on its last line.
C1_MultiLineBodyReconstructed ==
    (logPc = "done" /\ IsMultiLineCommit(logArgs.lines)) =>
        /\ Len(commits) = 1
        /\ commits[1].sha = <<"H1">>
        /\ commits[1].parents = <<<<"P2">>, <<"P3">>>>
        /\ commits[1].refs = Given(<<<<"tag">>>>)
        /\ ~logArgs.omit_body
             => commits[1].body = Given(C1_ContinuationText(logArgs.lines))

\* a line that starts like a commit header but has too few fields
C13_IsShortHeader(rawLine) ==
    LET line == RStripNewline(rawLine)
    IN IsCommitHeader(line) /\ ~HasEnoughFields(line)

C13_WithoutShortHeaders(lines) ==
    SelectSeq(lines, LAMBDA rawLine : ~C13_IsShortHeader(rawLine))

\* every other line is a whole valid commit or one of its numstat lines
C13_OtherLinesValid(lines) ==
    \A i \in 1..Len(lines) :
        \/ C13_IsShortHeader(lines[i])
        \/ lines[i] \in {FullLine("H1"), FullLine("H2"), NumstatLine, BinaryNumstatLine}

\* C13: a header-like line with too few fields is skipped: the list returned
\* is the list returned for the same input without that line.
C13_ShortHeaderSkipped ==
    (/\ logPc = "done"
     /\ \E i \in 1..Len(logArgs.lines) : C13_IsShortHeader(logArgs.lines[i])
     /\ C13_OtherLinesValid(logArgs.lines))
        => commits = parse_log_with_stats(C13_WithoutShortHeaders(logArgs.lines),
                                          logArgs.include_stats, logArgs.omit_body)

\* the fields of the first line of a commit in the documented input format:
\* the twelve header fields and the start of the body
FirstLineFields == 13

\* a commit header: 40 hexadecimal characters, the separator and at least
\* the fields of a first line
C14_HeaderAt(i) ==
    LET line == RStripNewline(logArgs.lines[i])
    IN IsCommitHeader(line) /\ CountAtom(line, SEP) + 1 >= FirstLineFields

\* the positions of the commit headers, in input order
C14_HeaderPositions ==
    SelectSeq([i \in 1..Len(logArgs.lines) |-> i], C14_HeaderAt)

\* the last line before the next commit header
C14_BlockEnd(k) ==
    IF k < Len(C14_HeaderPositions) THEN C14_HeaderPositions[k + 1] - 1
    ELSE Len(logArgs.lines)

C14_Fields(i) == SplitChar(RStripNewline(logArgs.lines[i]), TAB)
C14_IsCount(field) == field = <<"-">> \/ PyInt(field).ok
C14_Count(field) == IF field = <<"-">> THEN 0 ELSE PyInt(field).val

\* added<TAB>deleted<TAB>file with both counts a number or "-"
C14_ValidNumstatAt(i) ==
    /\ Len(C14_Fields(i)) >= 3
    /\ C14_IsCount(C14_Fields(i)[1])
    /\ C14_IsCount(C14_Fields(i)[2])

\* the valid numstat lines between header k and the next header
C14_NumstatPositions(k) ==
    LET first == C14_HeaderPositions[k] + 1
        last == C14_BlockEnd(k)
    IN SelectSeq([j \in 1..(last - first + 1) |-> first + j - 1], C14_ValidNumstatAt)

C14_ExpectedStats(k) ==
    LET rows == C14_NumstatPositions(k)
    IN [files_changed |-> Len(rows),
        insertions |-> SumSeq([j \in 1..Len(rows) |-> C14_Count(C14_Fields(rows[j])[1])]),
        deletions |-> SumSeq([j \in 1..Len(rows) |-> C14_Count(C14_Fields(rows[j])[2])])]

\* C14: with stats requested, the k-th commit returned belongs to the k-th
\* commit header of the input, and its stats count exactly the valid numstat
\* lines between that header and the next one, "-" counting as 0; so every
\* numstat line is counted for the nearest preceding header and for no other
\* commit.
C14_NumstatAttribution ==
    (logPc = "done" /\ logArgs.include_stats)
        => /\ Len(commits) = Len(C14_HeaderPositions)
           /\ \A k \in 1..Len(commits) :
                 /\ commits[k].sha = <<logArgs.lines[C14_HeaderPositions[k]][1]>>
                 /\ commits[k].has_stats
                 /\ commits[k].stats = C14_ExpectedStats(k)
                 /\ Len(commits[k].files) = Len(C14_NumstatPositions(k))

LogNext == ProcessLine \/ ProcessLast

(***************************************************************************)
(* Exit codes of ownership.py, co_changes.py and git/worktree.py           *)
(***************************************************************************)
Running == 0 - 1
Scripts == {"ownership", "co_changes", "worktree"}

\* argparse: parser.parse_args() exits with status 2 on a bad command line
ArgparseError == 2

\* the exit status of a Python process that ends with an uncaught exception
UncaughtException == 1

\* the commits git log can print for a file: %an is the author name, which
\* may hold a "|", and %ai the author date, here the number of days before
\* the run
MaxHistory == 2
AuthorNames == {<<"Ann">>, <<"A", "|", "B">>}
AuthorDates == {"0 days ago", "1000 days ago"}
DaysAgo(date) == IF date = "0 days ago" THEN 0 ELSE 1000
HistoryCommits == [author : AuthorNames, date : AuthorDates]

\* one line of git log --format=%H|%an|%ai
HistoryLine(commit) == <<"hash", "|">> \o commit.author \o <<"|", commit.date>>

\* --decay-days: any integer passes type=int
DefaultDecayDays == 180
DecayDays == {0 - 1, 0, 1, DefaultDecayDays}

\* get_file_commit_history, one line: line.split("|", 2) into hash, author
\* and date_str, then datetime.fromisoformat on date_str.  ValueError when
\* the line has fewer than three parts or date_str is no date.
ParseHistoryLine(line) ==
    LET p1 == FindChar(line, "|", 1)
        p2 == IF p1 = 0 THEN 0 ELSE FindChar(line, "|", p1 + 1)
        date_str == Slice(line, p2 + 1, Len(line))
    IN IF p1 = 0 \/ p2 = 0 THEN [raises |-> TRUE]
       ELSE IF Len(date_str) # 1 \/ date_str[1] \notin AuthorDates
       THEN [raises |-> TRUE]
       ELSE [raises |-> FALSE, author |-> Slice(line, p1 + 1, p2 - 1),
             days_ago |-> DaysAgo(date_str[1])]

\* math.exp(x) raises OverflowError for every float x above the largest one
\* whose exponential is a float, 0x1.62E42FEFA39EFp+9 = 709.782712893384.
\* The quotient of two integers is rounded to the nearest float, so it is
\* above that float exactly when the exact quotient is at least half a unit
\* in the last place beyond it: 709 plus the binary fraction ExpRangeBits.
ExpRangeInt == 709
ExpRangeBits ==
    <<1, 1, 0, 0, 1, 0, 0, 0, 0, 1, 0, 1, 1, 1, 1, 1, 1, 1, 0, 1, 1, 1,
      1, 1, 0, 1, 0, 0, 0, 1, 1, 1, 0, 0, 1, 1, 1, 1, 0, 1, 1, 1, 1, 1>>

\* r / d >= the binary fraction 0.bits, for 0 <= r < d, by long division
RECURSIVE FractionAtLeast(_, _, _)
FractionAtLeast(r, d, bits) ==
    LET b == (2 * r) \div d
    IN IF bits = <<>> THEN TRUE
       ELSE IF b > Head(bits) THEN TRUE
       ELSE IF b < Head(bits) THEN FALSE
       ELSE FractionAtLeast(2 * r - b * d, d, Tail(bits))

\* math.exp(n / d) raises OverflowError, for n >= 0 and d > 0
ExpOverflows(n, d) ==
    \/ n \div d > ExpRangeInt
    \/ n \div d = ExpRangeInt /\ FractionAtLeast(n % d, d, ExpRangeBits)

\* calculate_recency_weight: math.exp(-days_ago / decay_days) raises
\* ZeroDivisionError for decay_days = 0 and OverflowError when the quotient
\* is beyond the range of math.exp
RecencyWeightRaises(days_ago, decay_days) ==
    \/ decay_days = 0
    \/ decay_days < 0 /\ days_ago > 0 /\ ExpOverflows(days_ago, 0 - decay_days)
    \/ decay_days > 0 /\ days_ago < 0 /\ ExpOverflows(0 - days_ago, decay_days)

\* ownership.py main, after parse_args succeeded.  get_author_files and
\* get_file_commit_history return an empty result when git exits with an
\* error (CalledProcessError) and catch nothing else, and main catches
\* nothing: with no git executable subprocess.run raises FileNotFoundError,
\* a line of the history that does not parse raises ValueError, and the
\* recency weight of a commit raises ZeroDivisionError or OverflowError.
ownership_main(a) ==
    LET lines == [i \in 1..Len(a.history) |-> HistoryLine(a.history[i])]
        parsed == [i \in 1..Len(lines) |-> ParseHistoryLine(lines[i])]
    IN IF a.author_given
       THEN (IF a.git_missing THEN UncaughtException ELSE 0)
       ELSE IF ~a.target_given THEN 1
       ELSE IF a.git_missing THEN UncaughtException
       ELSE IF a.git_fails THEN 1
       ELSE IF \E i \in 1..Len(parsed) : parsed[i].raises THEN UncaughtException
       ELSE IF parsed = <<>> THEN 1
       ELSE IF \E i \in 1..Len(parsed) :
                  RecencyWeightRaises(parsed[i].days_ago, a.decay_days)
       THEN UncaughtException
       ELSE 0

\* co_changes.py main, after parse_args succeeded
co_changes_main(a) ==
    IF a.stdin_empty THEN 1
    ELSE IF a.no_data THEN 1
    ELSE 0

\* git/worktree.py main, after parse_args succeeded.  _get_main_repo_path
\* and _get_worktree_porcelain return "" when git fails.
worktree_main(a) ==
    LET main_repo_path_empty == ~a.path_given /\ (a.git_fails \/ a.not_in_repo)
        porcelain_output_empty == a.git_fails \/ a.no_output
    IN IF main_repo_path_empty THEN 1
       ELSE IF porcelain_output_empty THEN 0
       ELSE IF a.raises THEN 1
       ELSE 0

\* sys.exit(main()) / main(): the exit status of one run
ExitStatus(a) ==
    IF ~a.argv_valid THEN ArgparseError
    ELSE CASE a.script = "ownership" -> ownership_main(a)
           [] a.script = "co_changes" -> co_changes_main(a)
           [] a.script = "worktree" -> worktree_main(a)

RunIdle == runArgs = NoCall /\ exitCode = Running

RunInit ==
    /\ exitCode = Running
    /\ \/ /\ runArgs \in [called : {TRUE}, script : {"ownership"},
                          argv_valid : BOOLEAN, author_given : BOOLEAN,
                          target_given : BOOLEAN, git_fails : BOOLEAN,
                          git_missing : BOOLEAN, no_data : BOOLEAN,
                          history : ArraysUpTo(HistoryCommits, MaxHistory),
                          decay_days : DecayDays]
          \* without a git executable git fails, and a git that fails
          \* prints nothing
          /\ runArgs.git_missing => runArgs.git_fails
          /\ runArgs.git_fails => runArgs.no_data
          \* the file has a history exactly in the runs that find data for it
          /\ runArgs.history = <<>>
               <=> (runArgs.author_given \/ ~runArgs.target_given \/ runArgs.no_data)
       \/ /\ runArgs \in [called : {TRUE}, script : {"co_changes"},
                          argv_valid : BOOLEAN, stdin_empty : BOOLEAN,
                          no_data : BOOLEAN]
          \* empty input holds no commits
          /\ runArgs.stdin_empty => runArgs.no_data
       \/ /\ runArgs \in [called : {TRUE}, script : {"worktree"},
                          argv_valid : BOOLEAN, path_given : BOOLEAN,
                          not_in_repo : BOOLEAN, git_fails : BOOLEAN,
                          no_output : BOOLEAN, no_data : BOOLEAN,
                          raises : BOOLEAN]
          \* no output lists no worktrees
          /\ runArgs.no_output => runArgs.no_data

OwnershipMain ==
    /\ runArgs.called /\ runArgs.script = "ownership" /\ exitCode = Running
    /\ exitCode' = ExitStatus(runArgs)
    /\ UNCHANGED runArgs

CoChangesMain ==
    /\ runArgs.called /\ runArgs.script = "co_changes" /\ exitCode = Running
    /\ exitCode' = ExitStatus(runArgs)
    /\ UNCHANGED runArgs

WorktreeMain ==
    /\ runArgs.called /\ runArgs.script = "worktree" /\ exitCode = Running
    /\ exitCode' = ExitStatus(runArgs)
    /\ UNCHANGED runArgs

RunNext == OwnershipMain \/ CoChangesMain \/ WorktreeMain

\* the run found no data (no commits, no files, no worktrees) or hit a
\* recoverable error (git failed, input missing, an exception was caught)
C5_NoDataOrError ==
    CASE runArgs.script = "ownership" ->
           \/ runArgs.git_fails \/ runArgs.no_data
           \/ (~runArgs.author_given /\ ~runArgs.target_given)
      [] runArgs.script = "co_changes" ->
           runArgs.stdin_empty \/ runArgs.no_data
      [] runArgs.script = "worktree" ->
           \/ runArgs.git_fails \/ runArgs.no_output \/ runArgs.no_data
           \/ (~runArgs.path_given /\ runArgs.not_in_repo)
           \/ runArgs.raises

\* C5 as stated: exit code 0 only on success, exit code 1 whenever the run
\* finds no data or hits a recoverable error, exit code 2 only for
\* argument-parsing failures.
C5_ExitCodesAsStated ==
    exitCode # Running =>
        /\ exitCode = 0 => (runArgs.argv_valid /\ ~C5_NoDataOrError)
        /\ (runArgs.argv_valid /\ C5_NoDataOrError) => exitCode = 1
        /\ exitCode = 2 => ~runArgs.argv_valid

(***************************************************************************)
(* git/worktree.py : parse_worktree_list                                   *)
(***************************************************************************)
MaxWtLines == 3

WorktreePrefix == <<"worktree ">>
BranchHeadsPrefix == <<"branch ", "refs/heads/">>
BranchPrefix == <<"branch ">>
CommitPrefix == <<"commit ">>
LockedLine == <<"locked">>

\* str.splitlines() for "\n" line ends: no empty last line after a final "\n"
SplitLines(text) ==
    LET pieces == SplitChar(text, NL)
    IN IF pieces[Len(pieces)] = <<>> THEN Slice(pieces, 1, Len(pieces) - 1)
       ELSE pieces

\* the parser's state before the first line
WtStart ==
    [worktrees |-> <<>>, current_path |-> <<>>, current_branch |-> <<>>,
     current_commit |-> <<>>, current_locked |-> FALSE]

\* _check_worktree_dirty(path): what the three git calls find in that directory
check_worktree_dirty(path, a) == path \in a.dirty_paths

\* `if current_path:` ... worktrees.append(WorktreeInfo(...)), as written both
\* inside the loop and after it
WtAppend(st, a) ==
    IF st.current_path = <<>> THEN st.worktrees
    ELSE IF ~a.include_main /\ st.current_path = a.main_repo_path THEN st.worktrees
    ELSE Append(st.worktrees,
                [path |-> st.current_path,
                 branch |-> st.current_branch,
                 commit |-> Slice(st.current_commit, 1, Min(7, Len(st.current_commit))),
                 is_dirty |-> check_worktree_dirty(st.current_path, a),
                 is_locked |-> st.current_locked])

\* the body of `for line in lines`
WtLine(st, line, a) ==
    IF line = <<>>
    THEN IF st.current_path # <<>>
         THEN [WtStart EXCEPT !.worktrees = WtAppend(st, a)]
         ELSE st
    ELSE IF StartsWith(line, WorktreePrefix)
    THEN [st EXCEPT !.current_path = Strip(Slice(line, 2, Len(line)))]
    ELSE IF StartsWith(line, BranchHeadsPrefix)
    THEN [st EXCEPT !.current_branch = Strip(Slice(line, 3, Len(line)))]
    ELSE IF StartsWith(line, BranchPrefix)
    THEN [st EXCEPT !.current_branch = <<>>]
    ELSE IF StartsWith(line, CommitPrefix)
    THEN [st EXCEPT !.current_commit = Strip(Slice(line, 2, Len(line)))]
    ELSE IF line = LockedLine
    THEN [st EXCEPT !.current_locked = TRUE]
    ELSE st

RECURSIVE WtLoop(_, _, _, _)
WtLoop(st, lines, i, a) ==
    IF i > Len(lines) THEN st
    ELSE WtLoop(WtLine(st, lines[i], a), lines, i + 1, a)

\* mutant: the worktree still open after the last line is dropped
parse_worktree_list_noLast(a) ==
    [status |-> "returned",
     worktrees |-> WtLoop(WtStart, SplitLines(a.porcelain_output), 1, a).worktrees]

parse_worktree_list(a) ==
    [status |-> "returned",
     worktrees |-> WtAppend(WtLoop(WtStart, SplitLines(a.porcelain_output), 1, a), a)]

PathA == <<"/a">>
PathB == <<"/b">>
CommitHash == <<"0", "1", "2", "3", "4", "5", "6", "7">>
WtLineA == WorktreePrefix \o PathA
WtLineB == WorktreePrefix \o PathB
WtLineASpace == WorktreePrefix \o PathA \o <<" ">>
WtLineNoPath == WorktreePrefix
WtBranchLine == BranchHeadsPrefix \o <<"f">>
WtDetachedLine == BranchPrefix \o <<"x">>
WtCommitLine == CommitPrefix \o CommitHash
WtUnknownLine == <<"garbage">>
WtVocabulary ==
    {WtLineA, WtLineB, WtLineASpace, WtLineNoPath, WtBranchLine, WtDetachedLine,
     WtCommitLine, LockedLine, WtUnknownLine, <<>>}

WtIdle == wtArgs = NoCall /\ wtResult = Pending

WtInit ==
    /\ \E ls \in ArraysUpTo(WtVocabulary, MaxWtLines) :
       \E trailer \in {<<>>, <<NL>>, <<NL, NL>>} :
       \E main \in {PathA, PathB} :
       \E inc \in BOOLEAN :
       \E dirty \in {{}, {PathB}} :
          wtArgs = [called |-> TRUE,
                    porcelain_output |-> JoinLines(ls) \o trailer,
                    main_repo_path |-> main,
                    include_main |-> inc,
                    dirty_paths |-> dirty]
    /\ wtResult = Pending

ParseWorktreeList ==
    /\ wtArgs.called
    /\ wtResult = Pending
    /\ wtResult' = parse_worktree_list(wtArgs)
    /\ UNCHANGED wtArgs

WtResultPaths == [i \in 1..Len(wtResult.worktrees) |-> wtResult.worktrees[i].path]

\* the blocks of the output: its runs of non-blank lines
C11_Paragraphs(text) ==
    SelectSeq(SplitChar(SplitLines(text), <<>>), LAMBDA par : par # <<>>)

C11_IsWorktreeLine(line) == StartsWith(line, WorktreePrefix)
C11_PathOf(line) == Strip(Slice(line, 2, Len(line)))
C11_WorktreeLines(par) == SelectSeq(par, C11_IsWorktreeLine)

\* porcelain as git writes it: no block names two worktrees, no path is empty
C11_IsPorcelain(text) ==
    LET pars == C11_Paragraphs(text)
    IN \A k \in 1..Len(pars) :
          /\ Len(C11_WorktreeLines(pars[k])) <= 1
          /\ \A j \in 1..Len(pars[k]) :
                 C11_IsWorktreeLine(pars[k][j]) => C11_PathOf(pars[k][j]) # <<>>

\* the paths of the 'worktree <path>' blocks, in the order of the blocks
RECURSIVE C11_BlockPaths(_)
C11_BlockPaths(pars) ==
    IF pars = <<>> THEN <<>>
    ELSE LET w == C11_WorktreeLines(Head(pars))
         IN (IF w = <<>> THEN <<>> ELSE <<C11_PathOf(w[1])>>)
            \o C11_BlockPaths(Tail(pars))

C11_ExpectedPaths ==
    SelectSeq(C11_BlockPaths(C11_Paragraphs(wtArgs.porcelain_output)),
              LAMBDA path : wtArgs.include_main \/ path # wtArgs.main_repo_path)

\* str.rstrip("\n")
RECURSIVE C11_WithoutTrailingNewlines(_)
C11_WithoutTrailingNewlines(text) ==
    IF text # <<>> /\ text[Len(text)] = NL
    THEN C11_WithoutTrailingNewlines(Slice(text, 1, Len(text) - 1))
    ELSE text

\* C11: for porcelain output, parse_worktree_list returns one WorktreeInfo
\* per 'worktree <path>' block, in block order, leaving out the block whose
\* path is main_repo_path exactly when include_main is False; and it returns
\* the same list for the output without its trailing newlines and blank lines.
C11_OnePerBlock ==
    (wtResult.status # "pending" /\ C11_IsPorcelain(wtArgs.porcelain_output)) =>
        /\ wtResult.status = "returned"
        /\ WtResultPaths = C11_ExpectedPaths
        /\ wtResult = parse_worktree_list(
               [wtArgs EXCEPT !.porcelain_output = C11_WithoutTrailingNewlines(@)])

\* two blocks and a trailing blank line; the main repository /a is left out
C11_Witness ==
    /\ wtResult.status = "returned"
    /\ wtArgs.porcelain_output = JoinLines(<<WtLineA, <<>>, WtLineB>>) \o <<NL, NL>>
    /\ wtArgs.main_repo_path = PathA
    /\ ~wtArgs.include_main
    /\ WtResultPaths = <<PathB>>

\* some block does not begin with a 'worktree <path>' line, or some line is
\* none of the lines the parser knows
C12_IsKnownLine(line) ==
    \/ C11_IsWorktreeLine(line) /\ C11_PathOf(line) # <<>>
    \/ StartsWith(line, BranchPrefix)
    \/ StartsWith(line, CommitPrefix)
    \/ line = LockedLine

C12_Malformed(text) ==
    LET pars == C11_Paragraphs(text)
    IN \E k \in 1..Len(pars) :
          \/ ~C11_IsWorktreeLine(pars[k][1])
          \/ \E j \in 1..Len(pars[k]) : ~C12_IsKnownLine(pars[k][j])

\* C12: parse_worktree_list raises ValueError, and returns no list, when the
\* porcelain output is malformed.
C12_RaisesOnMalformed ==
    (wtResult.status # "pending" /\ C12_Malformed(wtArgs.porcelain_output))
        => wtResult.status = "ValueError"

(***************************************************************************)
(* hug-scm-mcp-server : command_executor.py, tool_handlers.py, server.py   *)
(***************************************************************************)
MaxPathLen == 3

\* The directory tree the server runs in.  An absolute path is "/" followed
\* by its components; the process starts in /work.
RootDir == <<"/">>
WorkDir == <<"/", "work">>
Dirs == {RootDir, WorkDir, <<"/", "work", "repo">>, <<"/", "etc">>}
RegularFiles == {<<"/", "work", "file">>}
\* /work/link is a symbolic link to /etc
SymlinkAt == <<"/", "work", "link">>
SymlinkTarget == <<"/", "etc">>

PathNames == {"..", ".", "repo", "file", "etc", "missing", "link", "work"}
\* the path strings a caller may pass: relative or absolute, "" included
PathStrings ==
    LET rel == UNION {[1..k -> PathNames] : k \in 0..MaxPathLen}
    IN rel \cup {<<"/">> \o p : p \in UNION {[1..k -> PathNames] : k \in 0..(MaxPathLen - 1)}}

\* Path(path).resolve(): made absolute from the working directory, "." and
\* ".." folded, symbolic links followed
RECURSIVE ResolveFrom(_, _)
ResolveFrom(base, names) ==
    IF names = <<>> THEN base
    ELSE LET name == Head(names)
             next == IF name = "." THEN base
                     ELSE IF name = ".."
                     THEN (IF Len(base) > 1 THEN Slice(base, 1, Len(base) - 1) ELSE base)
                     ELSE IF Append(base, name) = SymlinkAt THEN SymlinkTarget
                     ELSE Append(base, name)
         IN ResolveFrom(next, Tail(names))

IsAbsolute(path) == path # <<>> /\ Head(path) = "/"

Resolve(path) ==
    IF IsAbsolute(path) THEN ResolveFrom(RootDir, Tail(path))
    ELSE ResolveFrom(WorkDir, path)

\* os.getcwd(): the directory the server was started in
getcwd == [status |-> "returned", value |-> WorkDir]

\* CommandExecutor.validate_path
validate_path(path) ==
    IF path = <<>> THEN getcwd
    ELSE LET abs_path == Resolve(path)
         IN IF abs_path \notin Dirs \cup RegularFiles
            THEN [status |-> "ValueError", value |-> <<"Path does not exist: ">> \o path]
            ELSE IF abs_path \notin Dirs
            THEN [status |-> "ValueError", value |-> <<"Path is not a directory: ">> \o path]
            ELSE [status |-> "returned", value |-> abs_path]

\* what subprocess.run(["hug", ...]) may do
RunOutcomes ==
    [kind : {"exit"}, returncode : {0, 1}, stdout : {<<>>, <<"out">>}, stderr : {<<"err">>}]
    \cup [kind : {"TimeoutExpired", "FileNotFoundError", "PermissionError"},
          returncode : {0}, stdout : {<<>>}, stderr : {<<>>}]

Environments == [run : RunOutcomes]

ErrorResult(message) ==
    [status |-> "returned", success |-> FALSE, output |-> <<>>,
     error |-> Given(message), exit_code |-> 0 - 1]

\* the dictionary built from a finished subprocess
CompletedResult(run) ==
    [status |-> "returned",
     success |-> run.returncode = 0,
     output |-> run.stdout,
     error |-> IF run.returncode # 0 THEN Given(run.stderr) ELSE Absent,
     exit_code |-> run.returncode]

\* one call of subprocess.run
Invocation(args, cwd) == [cmd |-> <<<<"hug">>>> \o args, cwd |-> cwd]

\* the try block of CommandExecutor.execute up to subprocess.run: the
\* working directory, or the exception raised on the way to it
ExecuteCwd(cwd) ==
    IF cwd.present /\ cwd.value # <<>> THEN validate_path(cwd.value)
    ELSE getcwd

\* mutant: a ValueError of validate_path is not caught
execute_uncaughtValueError(args, cwd, env) ==
    LET dir == ExecuteCwd(cwd)
    IN IF dir.status = "ValueError"
       THEN [result |-> [status |-> "ValueError"], ran |-> <<>>]
       ELSE [result |->
                CASE env.run.kind = "exit" -> CompletedResult(env.run)
                  [] env.run.kind = "TimeoutExpired" -> ErrorResult(<<"Command timed out after ", "30", " seconds">>)
                  [] env.run.kind = "FileNotFoundError" -> ErrorResult(<<"Hug command not found">>)
                  [] OTHER -> ErrorResult(<<"Error executing command: ", env.run.kind>>),
             ran |-> <<Invocation(args, dir.value)>>]

\* CommandExecutor.execute: the dictionary returned and the subprocess calls made
execute(args, cwd, env) ==
    LET dir == ExecuteCwd(cwd)
    IN IF dir.status = "ValueError"
       THEN [result |-> ErrorResult(<<"Invalid path: ">> \o dir.value), ran |-> <<>>]
       ELSE [result |->
                CASE env.run.kind = "exit" -> CompletedResult(env.run)
                  [] env.run.kind = "TimeoutExpired" -> ErrorResult(<<"Command timed out after ", "30", " seconds">>)
                  [] env.run.kind = "FileNotFoundError" -> ErrorResult(<<"Hug command not found">>)
                  [] OTHER -> ErrorResult(<<"Error executing command: ", env.run.kind>>),
             ran |-> <<Invocation(args, dir.value)>>]

\* ---- tool arguments: the JSON object of a request ----
\* string-valued keys hold Absent or Given(text); flags hold a boolean, a
\* missing flag being FALSE; count holds Absent or Given(number)
DefaultArguments ==
    [cwd |-> Absent, temporal |-> Absent, commit |-> Absent, format |-> Absent,
     search |-> Absent, file |-> Absent, commit1 |-> Absent, commit2 |-> Absent,
     count |-> [present |-> FALSE, value |-> 0],
     upstream |-> FALSE, show_patch |-> FALSE, oneline |-> FALSE, all |-> FALSE,
     verbose |-> FALSE, raw |-> FALSE, staged |-> FALSE, stat |-> FALSE]

\* truth value of arguments.get(key) for a string and for a number
Truthy(opt) == opt.present /\ opt.value # <<>>
TruthyCount(opt) == opt.present /\ opt.value # 0

\* str(n) for n >= 0
RECURSIVE Str(_)
Str(n) ==
    LET digit(d) == <<"0", "1", "2", "3", "4", "5", "6", "7", "8", "9">>[d + 1]
    IN IF n < 10 THEN <<digit(n)>> ELSE Str(n \div 10) \o <<digit(n % 10)>>

\* mutant: the commit is tested before the temporal argument
HugHFilesArgs_commitFirst(a) ==
    <<<<"h">>, <<"files">>>>
    \o (IF a.upstream THEN <<<<"-u">>>>
        ELSE IF Truthy(a.commit) THEN <<a.commit.value>>
        ELSE IF Truthy(a.temporal) THEN <<<<"-t">>, a.temporal.value>>
        ELSE IF TruthyCount(a.count) THEN <<Str(a.count.value)>>
        ELSE <<>>)
    \o (IF a.show_patch THEN <<<<"-p">>>> ELSE <<>>)

\* HugHFilesHandler.handle / call_tool "hug_h_files": the command line
HugHFilesArgs(a) ==
    <<<<"h">>, <<"files">>>>
    \o (IF a.upstream THEN <<<<"-u">>>>
        ELSE IF Truthy(a.temporal) THEN <<<<"-t">>, a.temporal.value>>
        ELSE IF Truthy(a.commit) THEN <<a.commit.value>>
        ELSE IF TruthyCount(a.count) THEN <<Str(a.count.value)>>
        ELSE <<>>)
    \o (IF a.show_patch THEN <<<<"-p">>>> ELSE <<>>)

HugStatusArgs(a) ==
    LET format_type == IF a.format.present THEN a.format.value ELSE <<"short">>
    IN <<IF format_type = <<"short">> THEN <<"sl">> ELSE <<"s">>>>

HugLogArgs(a) ==
    LET count == IF a.count.present THEN a.count.value ELSE 10
    IN <<<<"l">>, <<"-n">>, Str(count)>>
       \o (IF a.oneline THEN <<<<"--oneline">>>> ELSE <<>>)
       \o (IF Truthy(a.search) THEN <<<<"--grep">>, a.search.value>> ELSE <<>>)
       \o (IF Truthy(a.file) THEN <<<<"--">>, a.file.value>> ELSE <<>>)

HugBranchListArgs(a) ==
    <<<<"b">>>>
    \o (IF a.all THEN <<<<"-a">>>> ELSE <<>>)
    \o (IF a.verbose THEN <<<<"-v">>>> ELSE <<>>)

\* mutant: only a missing file is refused, an empty one is passed on
FileMissing_noneOnly(a) == ~a.file.present

\* `if not file`
FileMissing(a) == ~Truthy(a.file)

HugHStepsArgs(a) ==
    <<<<"h">>, <<"steps">>, a.file.value>>
    \o (IF a.raw THEN <<<<"--raw">>>> ELSE <<>>)

HugShowDiffArgs(a) ==
    IF Truthy(a.commit1)
    THEN <<<<"--no-pager">>, <<"diff">>>>
         \o (IF a.stat THEN <<<<"--stat">>>> ELSE <<>>)
         \o <<a.commit1.value>>
         \o (IF Truthy(a.commit2) THEN <<a.commit2.value>> ELSE <<>>)
         \o (IF Truthy(a.file) THEN <<<<"--">>, a.file.value>> ELSE <<>>)
    ELSE IF a.staged
    THEN <<<<"ss">>>> \o (IF Truthy(a.file) THEN <<a.file.value>> ELSE <<>>)
    ELSE <<<<"sw">>>> \o (IF Truthy(a.file) THEN <<a.file.value>> ELSE <<>>)

\* the names ToolRegistry._register_default_handlers registers
RegisteredTools ==
    {"hug_h_files", "hug_status", "hug_log", "hug_branch_list", "hug_h_steps",
     "hug_show_diff"}

\* the names of the Tool objects server.list_tools returns
ListedTools ==
    {"hug_h_files", "hug_status", "hug_log", "hug_branch_list", "hug_h_steps",
     "hug_show_diff"}

\* the command line the tool called `name` builds
ToolArgs(name, a) ==
    CASE name = "hug_h_files" -> HugHFilesArgs(a)
      [] name = "hug_status" -> HugStatusArgs(a)
      [] name = "hug_log" -> HugLogArgs(a)
      [] name = "hug_branch_list" -> HugBranchListArgs(a)
      [] name = "hug_h_steps" -> HugHStepsArgs(a)
      [] name = "hug_show_diff" -> HugShowDiffArgs(a)

\* ToolRegistry.get_handler(name).handle(arguments)
handle(name, a, env) ==
    IF name = "hug_h_steps" /\ FileMissing(a)
    THEN [result |-> ErrorResult(<<"file parameter is required">>), ran |-> <<>>]
    ELSE execute(ToolArgs(name, a), a.cwd, env)

\* ---- server.py ----
\* the directory the operating system reaches for a cwd given to
\* subprocess.run, or the error of the failed chdir
RECURSIVE OsWalk(_, _)
OsWalk(base, names) ==
    IF base \notin Dirs
    THEN [status |-> IF base \in RegularFiles THEN "NotADirectoryError"
                     ELSE "FileNotFoundError", value |-> <<>>]
    ELSE IF names = <<>> THEN [status |-> "returned", value |-> base]
    ELSE LET name == Head(names)
             next == IF name = "." THEN base
                     ELSE IF name = ".."
                     THEN (IF Len(base) > 1 THEN Slice(base, 1, Len(base) - 1) ELSE base)
                     ELSE IF Append(base, name) = SymlinkAt THEN SymlinkTarget
                     ELSE Append(base, name)
         IN OsWalk(next, Tail(names))

OsChdir(path) ==
    IF IsAbsolute(path) THEN OsWalk(RootDir, Tail(path))
    ELSE OsWalk(WorkDir, path)

\* run_hug_command: the dictionary returned and the subprocess calls made
run_hug_command(args, cwd, env) ==
    LET given == cwd.present /\ cwd.value # <<>>
        dir == IF given THEN OsChdir(cwd.value) ELSE getcwd
        call == <<Invocation(args, IF given THEN cwd.value ELSE dir.value)>>
    IN [result |->
           IF dir.status = "FileNotFoundError"
           THEN ErrorResult(<<"Hug command not found">>)
           ELSE IF dir.status # "returned"
           THEN ErrorResult(<<"Error executing command: ", dir.status>>)
           ELSE CASE env.run.kind = "exit" -> CompletedResult(env.run)
                  [] env.run.kind = "TimeoutExpired" -> ErrorResult(<<"Command timed out after ", "30", " seconds">>)
                  [] env.run.kind = "FileNotFoundError" -> ErrorResult(<<"Hug command not found">>)
                  [] OTHER -> ErrorResult(<<"Error executing command: ", env.run.kind>>),
        ran |-> call]

\* mutant: the hug_show_diff branch is missing from the dispatch
DispatchedTools_five ==
    {"hug_h_files", "hug_status", "hug_log", "hug_branch_list", "hug_h_steps"}

\* the names the if/elif chain of call_tool tests
DispatchedTools ==
    {"hug_h_files", "hug_status", "hug_log", "hug_branch_list", "hug_h_steps",
     "hug_show_diff"}

\* "Format the response" of call_tool
ResponseText(result) ==
    IF result.success
    THEN (IF result.output # <<>> THEN result.output ELSE <<"(No output)">>)
    ELSE <<"Error executing command:", NL>> \o result.error.value
         \o <<NL, NL, "Output:", NL>> \o result.output

\* server.call_tool: the texts returned and the subprocess calls made
call_tool(name, a, env) ==
    IF name \notin DispatchedTools
    THEN [result |-> [status |-> "returned", texts |-> <<<<"Unknown tool: ", name>>>>],
          ran |-> <<>>]
    ELSE IF name = "hug_h_steps" /\ FileMissing(a)
    THEN [result |-> [status |-> "returned",
                      texts |-> <<<<"Error: file parameter is required">>>>],
          ran |-> <<>>]
    ELSE LET r == run_hug_command(ToolArgs(name, a), a.cwd, env)
         IN [result |-> [status |-> "returned", texts |-> <<ResponseText(r.result)>>],
             ran |-> r.ran]

\* ---- requests ----
CwdChoices ==
    {Absent, Given(<<>>), Given(<<"repo">>), Given(<<"..", "etc">>),
     Given(<<"missing">>), Given(<<"file">>), Given(<<"missing", "..">>)}
FileChoices == {Absent, Given(<<>>), Given(<<"f.py">>)}
CountChoices == {[present |-> FALSE, value |-> 0], [present |-> TRUE, value |-> 0],
                 [present |-> TRUE, value |-> 12]}
OptionalText(s) == {Absent, Given(s)}

\* the argument objects tried for each tool; keys a tool does not read are absent
ArgumentsFor(name) ==
    CASE name = "hug_h_files" ->
           {[DefaultArguments EXCEPT !.upstream = u, !.temporal = t, !.commit = c,
                                     !.count = n, !.show_patch = p] :
               u \in BOOLEAN, t \in OptionalText(<<"3 days ago">>),
               c \in OptionalText(<<"abc1234">>), n \in CountChoices, p \in BOOLEAN}
      [] name = "hug_status" ->
           {[DefaultArguments EXCEPT !.format = f] :
               f \in {Absent, Given(<<"short">>), Given(<<"full">>)}}
      [] name = "hug_log" ->
           {[DefaultArguments EXCEPT !.count = n, !.oneline = o, !.search = s, !.file = f] :
               n \in CountChoices, o \in BOOLEAN, s \in OptionalText(<<"fix">>),
               f \in FileChoices}
      [] name = "hug_branch_list" ->
           {[DefaultArguments EXCEPT !.all = x, !.verbose = v] :
               x \in BOOLEAN, v \in BOOLEAN}
      [] name = "hug_h_steps" ->
           {[DefaultArguments EXCEPT !.file = f, !.raw = r] :
               f \in FileChoices, r \in BOOLEAN}
      [] name = "hug_show_diff" ->
           {[DefaultArguments EXCEPT !.commit1 = c1, !.commit2 = c2, !.staged = s,
                                     !.stat = t, !.file = f] :
               c1 \in OptionalText(<<"abc1234">>), c2 \in OptionalText(<<"def5678">>),
               s \in BOOLEAN, t \in BOOLEAN, f \in FileChoices}
      [] OTHER -> {[DefaultArguments EXCEPT !.file = f] : f \in FileChoices}

\* a name no tool has, and a name close to one
OtherToolNames == {"unknown_tool", "hug_commit"}

Request(op, path, cwd, name, arguments, env) ==
    [called |-> TRUE, op |-> op, path |-> path, args |-> <<<<"--version">>>>,
     cwd |-> cwd, name |-> name, arguments |-> arguments, env |-> env]

QuietRun == [kind |-> "exit", returncode |-> 0, stdout |-> <<>>, stderr |-> <<"err">>]

McpIdle == mcpArgs = NoCall /\ mcpResult = Pending /\ mcpRan = <<>>

McpInit ==
    /\ \/ \E path \in PathStrings :
             mcpArgs = Request("validate_path", path, Absent, "", DefaultArguments,
                               [run |-> QuietRun])
       \/ \E cwd \in {Absent} \cup {Given(p) : p \in PathStrings}, env \in Environments :
             mcpArgs = Request("execute", <<>>, cwd, "", DefaultArguments, env)
       \/ \E name \in RegisteredTools, env \in Environments, cwd \in CwdChoices :
          \E a \in ArgumentsFor(name) :
             mcpArgs = Request("handle", <<>>, Absent, name, [a EXCEPT !.cwd = cwd], env)
       \/ \E name \in ListedTools \cup OtherToolNames, env \in Environments,
             cwd \in CwdChoices :
          \E a \in ArgumentsFor(name) :
             mcpArgs = Request("call_tool", <<>>, Absent, name, [a EXCEPT !.cwd = cwd], env)
    /\ mcpResult = Pending
    /\ mcpRan = <<>>

ValidatePath ==
    /\ mcpArgs.called /\ mcpArgs.op = "validate_path"
    /\ mcpResult = Pending
    /\ mcpResult' = validate_path(mcpArgs.path)
    /\ UNCHANGED <<mcpArgs, mcpRan>>

Execute ==
    /\ mcpArgs.called /\ mcpArgs.op = "execute"
    /\ mcpResult = Pending
    /\ LET r == execute(mcpArgs.args, mcpArgs.cwd, mcpArgs.env)
       IN mcpResult' = r.result /\ mcpRan' = r.ran
    /\ UNCHANGED mcpArgs

HandleTool ==
    /\ mcpArgs.called /\ mcpArgs.op = "handle"
    /\ mcpResult = Pending
    /\ LET r == handle(mcpArgs.name, mcpArgs.arguments, mcpArgs.env)
       IN mcpResult' = r.result /\ mcpRan' = r.ran
    /\ UNCHANGED mcpArgs

CallTool ==
    /\ mcpArgs.called /\ mcpArgs.op = "call_tool"
    /\ mcpResult = Pending
    /\ LET r == call_tool(mcpArgs.name, mcpArgs.arguments, mcpArgs.env)
       IN mcpResult' = r.result /\ mcpRan' = r.ran
    /\ UNCHANGED mcpArgs

McpNext == ValidatePath \/ Execute \/ HandleTool \/ CallTool

McpDone == mcpArgs.called /\ mcpResult.status # "pending"

\* a relative path with ".." components that leads outside the directory it
\* starts from
C15_AttemptsTraversal(path) ==
    /\ ~IsAbsolute(path)
    /\ \E i \in 1..Len(path) : path[i] = ".."
    /\ ~StartsWith(Resolve(path), WorkDir)

\* C15: validate_path raises ValueError for a path that attempts directory
\* traversal, and execute runs no command with such a path as its cwd.
C15_RejectsTraversal ==
    /\ (McpDone /\ mcpArgs.op = "validate_path"
        /\ C15_AttemptsTraversal(mcpArgs.path))
          => mcpResult.status = "ValueError"
    /\ (McpDone /\ mcpArgs.op = "execute"
        /\ mcpArgs.cwd.present /\ C15_AttemptsTraversal(mcpArgs.cwd.value))
          => mcpRan = <<>>

C17_SixTools ==
    {"hug_status", "hug_log", "hug_branch_list", "hug_h_files", "hug_h_steps",
     "hug_show_diff"}

\* C17: list_tools, the default registry and the dispatch of call_tool name
\* the same six tools; call_tool with one of them invokes hug (unless the
\* request is refused for its missing file), with any other name it runs
\* nothing and answers the single text "Unknown tool: <name>".
C17_ToolSetFixed ==
    /\ ListedTools = C17_SixTools
    /\ RegisteredTools = C17_SixTools
    /\ DispatchedTools = C17_SixTools
    /\ (McpDone /\ mcpArgs.op = "call_tool") =>
          IF mcpArgs.name \in C17_SixTools
          THEN \/ mcpArgs.name = "hug_h_steps" /\ ~Truthy(mcpArgs.arguments.file)
               \/ /\ Len(mcpRan) = 1
                  /\ mcpRan[1].cmd[1] = <<"hug">>
                  /\ mcpRan[1].cmd = <<<<"hug">>>> \o ToolArgs(mcpArgs.name, mcpArgs.arguments)
          ELSE /\ mcpRan = <<>>
               /\ mcpResult.texts = <<<<"Unknown tool: ", mcpArgs.name>>>>

C17_Witness ==
    /\ McpDone /\ mcpArgs.op = "call_tool"
    /\ mcpArgs.name = "hug_commit"
    /\ mcpResult.texts = <<<<"Unknown tool: ", "hug_commit">>>>
    /\ mcpRan = <<>>

\* C18: a hug_h_steps request without a file, or with an empty one, starts no
\* command and is answered with "file parameter is required", by the handler
\* (success False) and by call_tool alike.
C18_FileRequired ==
    (/\ McpDone
     /\ mcpArgs.op \in {"handle", "call_tool"}
     /\ mcpArgs.name = "hug_h_steps"
     /\ (~mcpArgs.arguments.file.present \/ mcpArgs.arguments.file.value = <<>>))
        => /\ mcpRan = <<>>
           /\ mcpArgs.op = "handle" =>
                 /\ mcpResult.success = FALSE
                 /\ mcpResult.error = Given(<<"file parameter is required">>)
           /\ mcpArgs.op = "call_tool" =>
                 mcpResult.texts = <<<<"Error: file parameter is required">>>>

\* the handler refuses an empty file name although hug could be run
C18_Witness ==
    /\ McpDone /\ mcpArgs.op = "handle"
    /\ mcpArgs.name = "hug_h_steps"
    /\ mcpArgs.arguments.file = Given(<<>>)
    /\ mcpArgs.env.run.kind = "exit"
    /\ mcpResult.success = FALSE
    /\ mcpRan = <<>>

\* C19: execute always returns a dictionary with exactly the keys success,
\* output, error and exit_code, and success is True exactly when exit_code is 0.
C19_ExecuteAlwaysReturns ==
    (McpDone /\ mcpArgs.op = "execute") =>
        /\ mcpResult.status = "returned"
        /\ DOMAIN mcpResult = {"status", "success", "output", "error", "exit_code"}
        /\ mcpResult.success <=> (mcpResult.exit_code = 0)

\* a working directory that does not exist: an error dictionary, no command
C19_Witness ==
    /\ McpDone /\ mcpArgs.op = "execute"
    /\ mcpArgs.cwd = Given(<<"missing">>)
    /\ mcpResult.success = FALSE
    /\ mcpResult.exit_code = 0 - 1
    /\ mcpResult.error = Given(<<"Invalid path: ", "Path does not exist: ", "missing">>)
    /\ mcpRan = <<>>

(***************************************************************************)
(* json_transform.py: commit_search and validate_json_schema.              *)
(*                                                                         *)
(* A JSON object is a record; the text json.dumps produces is modelled by  *)
(* whether it parses and by the set of its top-level keys, which is all    *)
(* validate_json_schema reads.  git's standard output is a sequence of     *)
(* atoms, as in the log parser above.                                      *)
(***************************************************************************)
MaxSearchLines == 2

\* the concatenation of a list of lines
RECURSIVE ConcatLines(_)
ConcatLines(ls) == IF ls = <<>> THEN <<>> ELSE Head(ls) \o ConcatLines(Tail(ls))

\* json.dumps(result): a text that parses, with the object's keys
json_dumps(obj) == [parses |-> TRUE, keys |-> DOMAIN obj]
\* a text json.loads rejects
NotJson == [parses |-> FALSE, keys |-> {}]

SchemaNames == {"status", "commit_search", "branch_list", "other"}

\* required_keys of each schema; none for a schema name that is not listed
RequiredKeys(schema_name) ==
    IF schema_name = "status" THEN {"repository", "status"}
    ELSE IF schema_name = "commit_search" THEN {"repository", "search", "results"}
    ELSE IF schema_name = "branch_list" THEN {"repository", "branches"}
    ELSE {}

validate_json_schema(json_data, schema_name) ==
    IF ~json_data.parses THEN FALSE
    ELSE RequiredKeys(schema_name) \subseteq json_data.keys

\* the argv handed to subprocess.run
SearchCmd(a) ==
    <<<<"git">>, <<"log">>, <<"--format=">>>>
    \o (IF a.with_files THEN <<<<"--numstat">>>> ELSE <<>>)
    \o <<(IF a.search_type = "message" THEN <<"--grep=">> ELSE <<"-S">>)
         \o a.search_term>>
    \o a.additional_args

\* the fallback of `except ImportError`: one commit per non-empty line of
\* at least 12 fields
RECURSIVE FallbackCommits(_)
FallbackCommits(ls) ==
    IF ls = <<>> THEN <<>>
    ELSE LET commit_line == Head(ls)
             parts == SplitChar(commit_line, SEP)
         IN (IF commit_line # <<>> /\ Len(parts) >= 12
             THEN <<[sha |-> parts[1], sha_short |-> parts[2],
                     author |-> [name |-> parts[3], email |-> parts[4]],
                     date |-> parts[7], subject |-> parts[12],
                     message |-> IF Len(parts) > 12 THEN parts[13] ELSE parts[12]]>>
             ELSE <<>>)
            \o FallbackCommits(Tail(ls))

SearchCommits(a) ==
    IF a.env.log_json
    THEN parse_log_with_stats(SplitChar(a.git.stdout, NL), a.with_files, a.no_body)
    ELSE FallbackCommits(SplitChar(Strip(a.git.stdout), NL))

commit_search(a) ==
    IF a.search_type \notin {"message", "code"}
    THEN [error |-> [type |-> "invalid_search_type",
                     message |-> <<"Search type must be \"message\" or \"code\"">>]]
    ELSE IF ~a.git.ok
    THEN [error |-> [type |-> "git_error",
                     message |-> <<"Git command failed: ">> \o a.git.stderr]]
    ELSE [repository |-> [path |-> getcwd.value],
          timestamp |-> <<"now">>,
          command |-> <<"hug", " ",
                        (IF a.search_type = "message" THEN "lf" ELSE "lc"),
                        " ", "--json">>,
          version |-> a.env.HUG_VERSION,
          search |-> [type |-> a.search_type, term |-> a.search_term,
                      with_files |-> a.with_files,
                      results_count |-> Len(SearchCommits(a))],
          commits |-> SearchCommits(a)]

\* what git can do: fail, or print any text of up to MaxSearchLines lines
GitOutcomes ==
    {[ok |-> FALSE, stdout |-> <<>>, stderr |-> <<"fatal">>]}
    \cup {[ok |-> TRUE, stdout |-> ConcatLines(ls), stderr |-> <<>>] :
            ls \in ArraysUpTo(LineVocabulary, MaxSearchLines)}

SearchEnvironments ==
    [log_json : BOOLEAN, HUG_VERSION : {<<"unknown">>, <<"1", ".", "0">>}]

NoSearch == [called |-> FALSE]
NoResult == [none |-> TRUE]
NoValidation == [done |-> FALSE]

CsIdle ==
    /\ csArgs = NoSearch
    /\ csResult = NoResult
    /\ csRan = <<>>
    /\ csValid = NoValidation

CsInit ==
    /\ csArgs \in [called : {TRUE},
                   search_type : {"message", "code", "author"},
                   search_term : {<<"Subj">>},
                   with_files : BOOLEAN,
                   no_body : BOOLEAN,
                   additional_args : {<<>>, <<<<"-n">>, <<"5">>>>},
                   git : GitOutcomes,
                   env : SearchEnvironments]
    /\ csResult = NoResult
    /\ csRan = <<>>
    /\ csValid = NoValidation

\* commit_search(search_type, search_term, with_files, no_body, additional_args)
CommitSearch ==
    /\ csArgs.called
    /\ csResult = NoResult
    /\ csResult' = commit_search(csArgs)
    /\ csRan' = IF csArgs.search_type \in {"message", "code"}
                THEN <<SearchCmd(csArgs)>> ELSE <<>>
    /\ UNCHANGED <<csArgs, csValid>>

\* validate_json_schema on the printed result, or on a text that is no JSON
ValidateJsonSchema ==
    /\ csResult # NoResult
    /\ csValid = NoValidation
    /\ \E schema_name \in SchemaNames, json_data \in {json_dumps(csResult), NotJson} :
          csValid' = [schema |-> schema_name, json |-> json_data,
                      valid |-> validate_json_schema(json_data, schema_name)]
    /\ UNCHANGED <<csArgs, csResult, csRan>>

CsNext == CommitSearch \/ ValidateJsonSchema

\* a search of a valid type whose git command succeeded
C16_Succeeded ==
    /\ csArgs.called
    /\ csResult # NoResult
    /\ csArgs.search_type \in {"message", "code"}
    /\ csArgs.git.ok

\* C16: the dictionary commit_search returns has the keys 'repository',
\* 'search' and 'results' and passes validate_json_schema against the
\* 'commit_search' schema, also when no commit matched.
C16_ResultPassesSchema ==
    C16_Succeeded =>
        /\ {"repository", "search", "results"} \subseteq DOMAIN csResult
        /\ validate_json_schema(json_dumps(csResult), "commit_search")

(***************************************************************************)
(* hug_git_branch.py: the branch listing and its command line.             *)
(*                                                                         *)
(* A repository is the list of its refs in ascending committer date, one   *)
(* commit date per ref; git for-each-ref prints the refs below a pattern   *)
(* in that order or in the reverse one.  A name is a sequence of atoms     *)
(* with "/" an atom of its own; NUL is the %00 delimiter.                  *)
(***************************************************************************)
MaxRefs == 2

NUL == "NUL"
Slash == "/"

\* number of characters of an atom
AtomLen(a) ==
    CASE a = "main" -> 4 [] a = "feat" -> 4 [] a = "HEAD" -> 4
      [] a = "hug-backups" -> 11 [] a = "origin" -> 6 [] a = "WIP" -> 3
      [] OTHER -> 1

\* len(s)
RECURSIVE CharLen(_)
CharLen(s) == IF s = <<>> THEN 0 ELSE AtomLen(Head(s)) + CharLen(Tail(s))

\* str.endswith
EndsWith(s, suffix) ==
    Len(s) >= Len(suffix) /\ SubSeq(s, Len(s) - Len(suffix) + 1, Len(s)) = suffix

RECURSIVE ReverseSeq(_)
ReverseSeq(s) == IF s = <<>> THEN <<>> ELSE ReverseSeq(Tail(s)) \o <<Head(s)>>

\* the refs a repository can hold
LocalRef(short, hash, subject, upstream) ==
    [ns |-> "heads", short |-> short, hash |-> hash, subject |-> subject,
     upstream |-> upstream]
RemoteRef(short, hash, subject) ==
    [ns |-> "remotes", short |-> short, hash |-> hash, subject |-> subject,
     upstream |-> <<>>]
RefVocabulary ==
    {LocalRef(<<"main">>, "a1", <<"Init">>, <<"origin", Slash, "main">>),
     LocalRef(<<"feat">>, "a2", <<"it", "'", "s">>, <<>>),
     LocalRef(<<"hug-backups", Slash, "x">>, "a3", <<"Backup">>, <<>>),
     LocalRef(<<"WIP", Slash, "t">>, "a4", <<"wip">>, <<>>),
     RemoteRef(<<"origin", Slash, "main">>, "b4", <<"Init">>),
     RemoteRef(<<"origin", Slash, "feat">>, "b1", <<"Feature">>),
     RemoteRef(<<"origin", Slash, "HEAD">>, "b2", <<"Init">>),
     RemoteRef(<<"origin", Slash, "hug-backups", Slash, "x">>, "b3", <<"Backup">>)}

\* refs in ascending committer date, no ref twice
Repositories ==
    {r \in ArraysUpTo(RefVocabulary, MaxRefs) :
        \A i, j \in 1..Len(r) : i # j => r[i] # r[j]}

\* %(committerdate:short) of the i-th oldest commit
DateOf(i) == <<"2024-01-0">> \o Str(i)

RefName(ref) == <<"refs", Slash, ref.ns, Slash>> \o ref.short

LocalPattern == <<"refs", Slash, "heads", Slash>>
RemotePattern == <<"refs", Slash, "remotes", Slash>>
DefaultWipPattern == <<"refs", Slash, "heads", Slash, "WIP", Slash>>

LocalFormat ==
    <<"refname:short", "objectname:short", "committerdate:short", "subject",
      "upstream:short", "upstream:track">>
ShortFormat ==
    <<"refname:short", "objectname:short", "committerdate:short", "subject">>

\* stdout of git rev-list --left-right --count <branch>...<upstream>: empty
\* when the upstream ref does not exist, "<ahead>TAB<behind>" when it does
DivergenceOutputs ==
    {<<>>, <<"0", TAB, "0">>, <<"2", TAB, "1">>, <<"2", TAB, "0">>,
     <<"0", TAB, "1">>, <<"2">>}

\* what git rev-list prints for a branch and an existing upstream that are
\* two commits
DivergedOutputs == {<<"2", TAB, "1">>, <<"2", TAB, "0">>, <<"0", TAB, "1">>}

\* the configured upstream of the ref is not a ref of the repository
UpstreamGone(ref, repo) ==
    /\ ref.upstream # <<>>
    /\ \A i \in 1..Len(repo) :
          ~(repo[i].ns = "remotes" /\ repo[i].short = ref.upstream)

\* %(upstream:track): nothing without an upstream or in sync with it, [gone]
\* when the upstream ref is missing, else the counts git rev-list prints
UpstreamTrack(ref, repo, divergence) ==
    LET parts == SplitChar(divergence, TAB)
        ahead == parts[1]
        behind == parts[2]
    IN IF ref.upstream = <<>> THEN <<>>
       ELSE IF UpstreamGone(ref, repo) THEN <<"[", "gone", "]">>
       ELSE IF Len(parts) # 2 THEN <<>>
       ELSE IF ahead # <<"0">> /\ behind # <<"0">>
       THEN <<"[", "ahead", " ">> \o ahead \o <<",", " ", "behind", " ">> \o behind \o <<"]">>
       ELSE IF ahead # <<"0">> THEN <<"[", "ahead", " ">> \o ahead \o <<"]">>
       ELSE IF behind # <<"0">> THEN <<"[", "behind", " ">> \o behind \o <<"]">>
       ELSE <<>>

\* one %(field) of a ref
FieldValue(ref, date, field, repo, divergence) ==
    CASE field = "refname:short" -> ref.short
      [] field = "objectname:short" -> <<ref.hash>>
      [] field = "committerdate:short" -> DateOf(date)
      [] field = "subject" -> ref.subject
      [] field = "upstream:short" -> ref.upstream
      [] field = "upstream:track" -> UpstreamTrack(ref, repo, divergence)
      [] OTHER -> <<>>

\* a record of git for-each-ref: every field followed by %00, then a newline
RECURSIVE RefRecord(_, _, _, _, _)
RefRecord(ref, date, format, repo, divergence) ==
    IF format = <<>> THEN <<NL>>
    ELSE FieldValue(ref, date, Head(format), repo, divergence) \o <<NUL>>
         \o RefRecord(ref, date, Tail(format), repo, divergence)

\* the records of the refs below the pattern, oldest first
RECURSIVE RefRecords(_, _, _, _, _)
RefRecords(repo, i, format, ref_pattern, divergence) ==
    IF i > Len(repo) THEN <<>>
    ELSE (IF StartsWith(RefName(repo[i]), ref_pattern)
          THEN <<RefRecord(repo[i], i, format, repo, divergence)>> ELSE <<>>)
         \o RefRecords(repo, i + 1, format, ref_pattern, divergence)

\* stdout of git for-each-ref --sort=[-]committerdate
GitForEachRef(repo, format, sort_prefix, ref_pattern, divergence) ==
    LET oldest_first == RefRecords(repo, 1, format, ref_pattern, divergence)
    IN ConcatLines(IF sort_prefix = "-" THEN ReverseSeq(oldest_first)
                   ELSE oldest_first)

\* _run_git_for_each_ref: the fields between the %00 delimiters
run_git_for_each_ref(repo, format, ref_pattern, sort_ascending, divergence) ==
    LET sort_prefix == IF ~sort_ascending THEN "-" ELSE ""
        output == RStripNewline(GitForEachRef(repo, format, sort_prefix, ref_pattern,
                                              divergence))
    IN IF output = <<>> THEN <<>> ELSE SplitChar(output, NUL)

\* _compute_divergence: the status string for the output of git rev-list
compute_divergence(divergence) ==
    LET parts == SplitChar(divergence, TAB)
        ahead == parts[1]
        behind == parts[2]
    IN IF divergence = <<>> THEN <<>>
       ELSE IF Len(parts) # 2 THEN <<>>
       ELSE IF ahead # <<"0">> /\ behind # <<"0">>
       THEN <<"[", "ahead", " ">> \o ahead \o <<",", " ", "behind", " ">> \o behind \o <<"]">>
       ELSE IF ahead # <<"0">> THEN <<"[", "ahead", " ">> \o ahead \o <<"]">>
       ELSE IF behind # <<"0">> THEN <<"[", "behind", " ">> \o behind \o <<"]">>
       ELSE <<>>

HugBackupsPrefix == <<"hug-backups", Slash>>

NoDetails == [found |-> FALSE]
BranchDetails(current_branch, branches) ==
    LET lens == {CharLen(branches[i].name) : i \in 1..Len(branches)}
    IN [found |-> TRUE, current_branch |-> current_branch,
        max_len |-> CHOOSE m \in lens : \A n \in lens : n <= m,
        branches |-> branches]

\* the chunk loop of get_local_branch_details
RECURSIVE LocalBranches(_, _, _, _)
LocalBranches(git_output, i, exclude_backup, divergence) ==
    IF i + 6 > Len(git_output) + 1 THEN <<>>
    ELSE LET branch == Strip(git_output[i])
             upstream == Strip(git_output[i + 4])
             status == compute_divergence(divergence)
             track == IF upstream = <<>> THEN <<>>
                      ELSE IF status # <<>>
                      THEN <<"[">> \o upstream \o <<":", " ">> \o status \o <<"]">>
                      ELSE <<"[">> \o upstream \o <<"]">>
         IN (IF exclude_backup /\ StartsWith(branch, HugBackupsPrefix) THEN <<>>
             ELSE <<[name |-> branch, hash |-> git_output[i + 1],
                     date |-> git_output[i + 2],
                     subject |-> Strip(git_output[i + 3]),
                     track |-> track, remote_ref |-> <<>>]>>)
            \o LocalBranches(git_output, i + 6, exclude_backup, divergence)

get_local_branch_details(env, exclude_backup, sort_ascending) ==
    LET current_branch == IF env.current_branch = <<>>
                          THEN <<"detached", " ", "HEAD">> ELSE env.current_branch
        git_output == run_git_for_each_ref(env.repo, LocalFormat, LocalPattern,
                                           sort_ascending, env.divergence)
        branches == LocalBranches(git_output, 1, exclude_backup, env.divergence)
    IN IF git_output = <<>> \/ branches = <<>> THEN NoDetails
       ELSE BranchDetails(current_branch, branches)

\* remote_ref.split("/", 1)[1], or the whole name when it has no "/"
AfterFirstSlash(remote_ref) ==
    LET p == FindChar(remote_ref, Slash, 1)
    IN IF p = 0 THEN remote_ref ELSE Slice(remote_ref, p + 1, Len(remote_ref))

\* the chunk loop of get_remote_branch_details
RECURSIVE RemoteBranches(_, _, _)
RemoteBranches(git_output, i, exclude_backup) ==
    IF i + 4 > Len(git_output) + 1 THEN <<>>
    ELSE LET remote_ref == Strip(git_output[i])
             branch == AfterFirstSlash(remote_ref)
             skip == \/ remote_ref = <<>>
                     \/ EndsWith(remote_ref, <<Slash, "HEAD">>)
                     \/ exclude_backup /\ StartsWith(remote_ref, HugBackupsPrefix)
                     \/ branch = <<>>
                     \/ branch = remote_ref
         IN (IF skip THEN <<>>
             ELSE <<[name |-> branch, hash |-> git_output[i + 1],
                     date |-> git_output[i + 2],
                     subject |-> Strip(git_output[i + 3]),
                     track |-> <<>>, remote_ref |-> remote_ref]>>)
            \o RemoteBranches(git_output, i + 4, exclude_backup)

get_remote_branch_details(env, exclude_backup, sort_ascending) ==
    LET git_output == run_git_for_each_ref(env.repo, ShortFormat, RemotePattern,
                                           sort_ascending, env.divergence)
        branches == RemoteBranches(git_output, 1, exclude_backup)
    IN IF git_output = <<>> \/ branches = <<>> THEN NoDetails
       ELSE BranchDetails(<<>>, branches)

\* the chunk loop of get_wip_branch_details
RECURSIVE WipBranches(_, _)
WipBranches(git_output, i) ==
    IF i + 4 > Len(git_output) + 1 THEN <<>>
    ELSE LET branch == Strip(git_output[i])
         IN (IF branch = <<>> THEN <<>>
             ELSE <<[name |-> branch, hash |-> git_output[i + 1],
                     date |-> git_output[i + 2],
                     subject |-> Strip(git_output[i + 3]),
                     track |-> <<>>, remote_ref |-> <<>>]>>)
            \o WipBranches(git_output, i + 4)

get_wip_branch_details(env, ref_pattern, sort_ascending) ==
    LET git_output == run_git_for_each_ref(env.repo, ShortFormat, ref_pattern,
                                           sort_ascending, env.divergence)
        branches == WipBranches(git_output, 1)
    IN IF git_output = <<>> \/ branches = <<>> THEN NoDetails
       ELSE BranchDetails(<<>>, branches)

\* _bash_escape: backslashes doubled, single quotes closed and reopened,
\* the whole in single quotes
RECURSIVE EscapeAtoms(_)
EscapeAtoms(s) ==
    IF s = <<>> THEN <<>>
    ELSE (IF Head(s) = "\\" THEN <<"\\", "\\">>
          ELSE IF Head(s) = "'" THEN <<"'", "\\", "'", "'">>
          ELSE <<Head(s)>>)
         \o EscapeAtoms(Tail(s))
bash_escape(s) == <<"'">> \o EscapeAtoms(s) \o <<"'">>

\* " ".join(_bash_escape(x) for x in values)
RECURSIVE JoinEscaped(_)
JoinEscaped(values) ==
    IF values = <<>> THEN <<>>
    ELSE IF Len(values) = 1 THEN bash_escape(values[1])
    ELSE bash_escape(values[1]) \o <<" ">> \o JoinEscaped(Tail(values))

DeclareArray(name, values) ==
    <<"declare -a ", name, "=(">> \o JoinEscaped(values) \o <<")">>

\* BranchDetails.to_bash_declare: the lines printed
to_bash_declare(details) ==
    LET b == details.branches
        column(f) == [i \in 1..Len(b) |-> b[i][f]]
    IN <<<<"declare current_branch=">> \o bash_escape(details.current_branch),
         <<"declare max_len=">> \o Str(details.max_len),
         DeclareArray("branches", column("name")),
         DeclareArray("hashes", column("hash")),
         DeclareArray("dates", column("date")),
         DeclareArray("tracks", column("track")),
         DeclareArray("subjects", column("subject"))>>
       \o (IF \E i \in 1..Len(b) : b[i].remote_ref # <<>>
           THEN <<DeclareArray("remote_refs", column("remote_ref"))>>
           ELSE <<>>)

\* BranchDetails.to_json: the object printed
to_json(details) ==
    [current_branch |-> details.current_branch, max_len |-> details.max_len,
     branches |-> details.branches]

BranchTypes == {"local", "remote", "wip"}
SortContexts == {"gum-single", "gum-multi", "static"}
\* --sort-context absent: argparse's default=None
NoSortContext == "None"

\* `if args.ascending: ... elif gum-single or static: ... else: ...`
SortAscending_staticDefault(args) ==
    \/ args.ascending
    \/ args.sort_context \in {"gum-single", "static", NoSortContext}
SortAscending(args) ==
    \/ args.ascending
    \/ args.sort_context = "gum-single"
    \/ args.sort_context = "static"

\* the details main obtains for the branch type
DetailsFor(args, env) ==
    IF args.type = "local"
    THEN get_local_branch_details(env, TRUE, SortAscending(args))
    ELSE IF args.type = "remote"
    THEN get_remote_branch_details(env, TRUE, SortAscending(args))
    ELSE get_wip_branch_details(env, args.pattern, SortAscending(args))

NoOutput == [format |-> "none"]

\* main: exit code, standard output and standard error
main(args, env) ==
    IF args.type \notin BranchTypes
       \/ args.sort_context \notin SortContexts \cup {NoSortContext}
    THEN [exit_code |-> 2, stdout |-> NoOutput, stderr |-> <<"usage">>,
          details |-> NoDetails]
    ELSE IF ~env.git_installed
    THEN [exit_code |-> 1, stdout |-> NoOutput,
          stderr |-> <<"Error: ", "FileNotFoundError">>, details |-> NoDetails]
    ELSE LET details == DetailsFor(args, env)
         IN IF ~details.found
            THEN [exit_code |-> 1, stdout |-> NoOutput, stderr |-> <<>>,
                  details |-> NoDetails]
            ELSE [exit_code |-> 0,
                  stdout |-> IF args.json
                             THEN [format |-> "json", object |-> to_json(details)]
                             ELSE [format |-> "bash", lines |-> to_bash_declare(details)],
                  stderr |-> <<>>,
                  details |-> details]

BackupPattern == <<"refs", Slash, "heads", Slash, "hug-backups", Slash>>

\* the command lines and the repositories main is run on
BranchArguments ==
    {a \in [called : {TRUE},
            type : BranchTypes \cup {"tags"},
            json : BOOLEAN,
            pattern : {DefaultWipPattern, BackupPattern},
            ascending : BOOLEAN,
            sort_context : SortContexts \cup {NoSortContext, "menu"}] :
        a.type # "wip" => a.pattern = DefaultWipPattern}
BranchEnvironments ==
    {e \in [git_installed : BOOLEAN,
            repo : Repositories,
            current_branch : {<<>>, <<"main">>},
            divergence : DivergenceOutputs] :
        /\ ~e.git_installed => e.repo = <<>>
        /\ (\A i \in 1..Len(e.repo) : e.repo[i].ns # "heads")
              => e.current_branch = <<>>
        /\ (\A i \in 1..Len(e.repo) :
               e.repo[i].upstream = <<>> \/ UpstreamGone(e.repo[i], e.repo))
              => e.divergence = <<>>
        /\ (\E i \in 1..Len(e.repo) :
               e.repo[i].upstream # <<>> /\ ~UpstreamGone(e.repo[i], e.repo))
              => e.divergence \in DivergedOutputs}

NoBranchCall == [called |-> FALSE]
NoBranchResult == [pending |-> TRUE]

BrIdle ==
    /\ brArgs = NoBranchCall
    /\ brEnv = NoBranchCall
    /\ brResult = NoBranchResult

\* direct calls of get_remote_branch_details(include_subjects=True, ...)
RemoteDetailsCalls ==
    [called : {TRUE}, exclude_backup : BOOLEAN, sort_ascending : BOOLEAN]

\* the call is a command line of main
IsCommandLine(args) == "type" \in DOMAIN args

BrInit ==
    /\ brArgs \in BranchArguments \cup RemoteDetailsCalls
    /\ brEnv \in BranchEnvironments
    /\ brResult = NoBranchResult

\* python3 -m hug_git_branch <type> [options]
Main ==
    /\ brArgs.called
    /\ IsCommandLine(brArgs)
    /\ brResult = NoBranchResult
    /\ brResult' = main(brArgs, brEnv)
    /\ UNCHANGED <<brArgs, brEnv>>

\* get_remote_branch_details(exclude_backup=..., sort_ascending=...)
GetRemoteBranchDetails ==
    /\ brArgs.called
    /\ ~IsCommandLine(brArgs)
    /\ brEnv.git_installed
    /\ brResult = NoBranchResult
    /\ brResult' = [details |-> get_remote_branch_details(brEnv, brArgs.exclude_backup,
                                                          brArgs.sort_ascending)]
    /\ UNCHANGED <<brArgs, brEnv>>

BrNext == Main \/ GetRemoteBranchDetails

\* the position in time of a %(committerdate:short) value
C20_Rank(date) == CHOOSE i \in 1..9 : DateOf(i) = date

\* the listed branches are in ascending, in descending committer date
C20_Ascending(branches) ==
    \A i, j \in 1..Len(branches) :
        i < j => C20_Rank(branches[i].date) < C20_Rank(branches[j].date)
C20_Descending(branches) ==
    \A i, j \in 1..Len(branches) :
        i < j => C20_Rank(branches[i].date) > C20_Rank(branches[j].date)

\* main listed the branches of a valid command line
C20_Listed ==
    /\ brArgs.called
    /\ IsCommandLine(brArgs)
    /\ brResult # NoBranchResult
    /\ brResult.exit_code = 0

\* C20: main lists the branches oldest first when --ascending is given or
\* the sort context is gum-single or static, static being the context of a
\* command line without --sort-context, and newest first only for
\* gum-multi without --ascending.
C20_SortOrder ==
    C20_Listed =>
        IF SortAscending_staticDefault(brArgs)
        THEN C20_Ascending(brResult.details.branches)
        ELSE C20_Descending(brResult.details.branches)

\* get_remote_branch_details returned
C21_Returned == brArgs.called /\ ~IsCommandLine(brArgs) /\ brResult # NoBranchResult

\* the remote refs of the repository with a given property, and the
\* remote_ref values of the branches returned
C21_RemoteRefs == {brEnv.repo[i].short : i \in {j \in 1..Len(brEnv.repo) : brEnv.repo[j].ns = "remotes"}}
C21_ReturnedRefs ==
    IF brResult.details.found
    THEN {brResult.details.branches[i].remote_ref : i \in 1..Len(brResult.details.branches)}
    ELSE {}
\* <remote>/hug-backups/...: the branch is in the hug-backups/ namespace
C21_IsBackup(short) == StartsWith(AfterFirstSlash(short), HugBackupsPrefix)
C21_IsHead(short) == EndsWith(short, <<Slash, "HEAD">>)

\* C21: with exclude_backup=True no remote branch of the hug-backups/
\* namespace is returned, with exclude_backup=False those branches are
\* returned, and HEAD references are returned in neither case.
C21_RemoteBackupsExcluded ==
    C21_Returned =>
        C21_ReturnedRefs =
            {r \in C21_RemoteRefs :
                /\ ~C21_IsHead(r)
                /\ brArgs.exclude_backup => ~C21_IsBackup(r)}

(***************************************************************************)
(* co_changes.py: build_co_occurrence_matrix and calculate_correlations.   *)
(*                                                                         *)
(* A commit is the list of its files in the order Python iterates the set  *)
(* (any order, no file twice).  A dict is the sequence of its items in     *)
(* insertion order.  A float that is a quotient of small integers is the   *)
(* pair of its numerator and denominator, compared by cross-multiplying.   *)
(***************************************************************************)
MaxChangeSets == 3

\* file names in str order
FileNames == <<"a", "b", "c">>
FileRank(f) == CHOOSE i \in 1..Len(FileNames) : FileNames[i] = f

\* the iteration orders of the non-empty file sets
ChangeSets ==
    {fs \in UNION {[1..k -> {FileNames[i] : i \in 1..Len(FileNames)}] :
                      k \in 1..Len(FileNames)} :
        \A i, j \in 1..Len(fs) : i # j => fs[i] # fs[j]}

Ratio(n, d) == [num |-> n, den |-> d]
\* x >= y and x > y for ratios of positive denominator
RatioGeq(x, y) == x.num * y.den >= y.num * x.den
RatioGt(x, y) == x.num * y.den > y.num * x.den
CorrelationThresholds == {Ratio(0, 1), Ratio(3, 10), Ratio(1, 2), Ratio(1, 1), Ratio(3, 2)}

\* file_a, file_b = sorted([files[i], files[j]])
SortedPair(x, y) == IF FileRank(x) <= FileRank(y) THEN <<x, y>> ELSE <<y, x>>

\* the pairs (i, j), i < j, of one commit in loop order
RECURSIVE PairsFrom(_, _, _)
PairsFrom(files, i, j) ==
    IF i > Len(files) THEN <<>>
    ELSE IF j > Len(files) THEN PairsFrom(files, i + 1, i + 2)
    ELSE <<SortedPair(files[i], files[j])>> \o PairsFrom(files, i, j + 1)

\* position of a key in a dict, 0 if absent
KeyIndex(items, key) ==
    IF \E k \in 1..Len(items) : items[k].key = key
    THEN CHOOSE k \in 1..Len(items) : items[k].key = key
    ELSE 0

\* co_files[file_b] += 1 on a defaultdict(int)
Increment(co_files, file_b) ==
    IF KeyIndex(co_files, file_b) = 0
    THEN Append(co_files, [key |-> file_b, value |-> 1])
    ELSE [co_files EXCEPT ![KeyIndex(co_files, file_b)].value = @ + 1]

\* co_matrix[file_a][file_b] += 1 on a defaultdict of defaultdicts
IncrementPair(co_matrix, pair) ==
    IF KeyIndex(co_matrix, pair[1]) = 0
    THEN Append(co_matrix, [key |-> pair[1],
                            value |-> <<[key |-> pair[2], value |-> 1]>>])
    ELSE [co_matrix EXCEPT ![KeyIndex(co_matrix, pair[1])].value =
                                 Increment(@, pair[2])]

RECURSIVE IncrementPairs(_, _)
IncrementPairs(co_matrix, pairs) ==
    IF pairs = <<>> THEN co_matrix
    ELSE IncrementPairs(IncrementPair(co_matrix, Head(pairs)), Tail(pairs))

\* co_matrix of build_co_occurrence_matrix
RECURSIVE CoMatrix(_, _)
CoMatrix(co_matrix, commit_list) ==
    IF commit_list = <<>> THEN co_matrix
    ELSE CoMatrix(IncrementPairs(co_matrix, PairsFrom(Head(commit_list), 1, 2)),
                  Tail(commit_list))

\* file_counts of build_co_occurrence_matrix, for the files that occur
FileCounts(commit_list) ==
    LET occurs(f, k) == \E i \in 1..Len(commit_list[k]) : commit_list[k][i] = f
        seen == {f \in {FileNames[i] : i \in 1..Len(FileNames)} :
                    \E k \in 1..Len(commit_list) : occurs(f, k)}
    IN [f \in seen |-> Cardinality({k \in 1..Len(commit_list) : occurs(f, k)})]

build_co_occurrence_matrix(commit_list) ==
    [co_matrix |-> CoMatrix(<<>>, commit_list), file_counts |-> FileCounts(commit_list)]

\* the dictionary of one pair
Correlation(file_a, file_b, co_count, count_a, count_b) ==
    [file_a |-> file_a, file_b |-> file_b,
     correlation |-> Ratio(co_count, Min(count_a, count_b)),
     co_changes |-> co_count, changes_a |-> count_a, changes_b |-> count_b]

\* mutant: a correlation equal to the threshold is not reported
RECURSIVE CorrelationsOf_strict(_, _, _, _)
CorrelationsOf_strict(file_a, co_files, file_counts, threshold) ==
    IF co_files = <<>> THEN <<>>
    ELSE LET c == Correlation(file_a, Head(co_files).key, Head(co_files).value,
                              file_counts[file_a], file_counts[Head(co_files).key])
         IN (IF RatioGt(c.correlation, threshold) THEN <<c>> ELSE <<>>)
            \o CorrelationsOf_strict(file_a, Tail(co_files), file_counts, threshold)

\* the inner loop: the pairs of one file_a that reach the threshold
RECURSIVE CorrelationsOf(_, _, _, _)
CorrelationsOf(file_a, co_files, file_counts, threshold) ==
    IF co_files = <<>> THEN <<>>
    ELSE LET c == Correlation(file_a, Head(co_files).key, Head(co_files).value,
                              file_counts[file_a], file_counts[Head(co_files).key])
         IN (IF RatioGeq(c.correlation, threshold) THEN <<c>> ELSE <<>>)
            \o CorrelationsOf(file_a, Tail(co_files), file_counts, threshold)

\* the outer loop over co_matrix.items()
RECURSIVE AllCorrelations(_, _, _)
AllCorrelations(co_matrix, file_counts, threshold) ==
    IF co_matrix = <<>> THEN <<>>
    ELSE CorrelationsOf(Head(co_matrix).key, Head(co_matrix).value,
                        file_counts, threshold)
         \o AllCorrelations(Tail(co_matrix), file_counts, threshold)

\* list.sort(key=correlation, reverse=True): stable, the greatest first
RECURSIVE InsertDescending(_, _)
InsertDescending(sorted, x) ==
    IF sorted = <<>> THEN <<x>>
    ELSE IF RatioGt(x.correlation, Head(sorted).correlation)
    THEN <<x>> \o sorted
    ELSE <<Head(sorted)>> \o InsertDescending(Tail(sorted), x)

RECURSIVE SortDescending(_, _)
SortDescending(sorted, rest) ==
    IF rest = <<>> THEN sorted
    ELSE SortDescending(InsertDescending(sorted, Head(rest)), Tail(rest))

calculate_correlations(co_matrix, file_counts, threshold) ==
    SortDescending(<<>>, AllCorrelations(co_matrix, file_counts, threshold))

\* main: `if args.top and args.top < len(correlations):
\*            correlations = correlations[: args.top]`
LimitToTop(correlations, top) ==
    IF top # 0 /\ top < Len(correlations)
    THEN (IF top > 0 THEN Slice(correlations, 1, top)
          ELSE Slice(correlations, 1, Len(correlations) + top))
    ELSE correlations

\* --top: default=20
DefaultTop == 20
TopChoices == {0 - 1, 0, 1, DefaultTop}

NoCorrelationCall == [called |-> FALSE]
NotBuilt == [built |-> FALSE]
NotCalculated == [calculated |-> FALSE]

CcIdle ==
    /\ ccArgs = NoCorrelationCall
    /\ ccBuilt = NotBuilt
    /\ ccResult = NotCalculated

CcInit ==
    /\ ccArgs \in [called : {TRUE},
                   commits : ArraysUpTo(ChangeSets, MaxChangeSets),
                   threshold : CorrelationThresholds,
                   top : TopChoices]
    /\ ccBuilt = NotBuilt
    /\ ccResult = NotCalculated

\* co_matrix, file_counts = build_co_occurrence_matrix(commits)
BuildCoOccurrenceMatrix ==
    /\ ccArgs.called
    /\ ccBuilt = NotBuilt
    /\ ccBuilt' = [built |-> TRUE] @@ build_co_occurrence_matrix(ccArgs.commits)
    /\ UNCHANGED <<ccArgs, ccResult>>

\* correlations = calculate_correlations(co_matrix, file_counts, threshold)
CalculateCorrelations ==
    /\ ccBuilt # NotBuilt
    /\ ccResult = NotCalculated
    /\ ccResult' = [calculated |-> TRUE,
                    limited |-> FALSE,
                    correlations |-> calculate_correlations(ccBuilt.co_matrix,
                                                            ccBuilt.file_counts,
                                                            ccArgs.threshold)]
    /\ UNCHANGED <<ccArgs, ccBuilt>>

\* "Limit to top N": main cuts the list it is about to print; with no
\* commits main has returned 1 before it builds the matrix
LimitCorrelations ==
    /\ ccArgs.commits # <<>>
    /\ ccResult # NotCalculated
    /\ ~ccResult.limited
    /\ ccResult' = [ccResult EXCEPT
                       !.limited = TRUE,
                       !.correlations = LimitToTop(ccResult.correlations, ccArgs.top)]
    /\ UNCHANGED <<ccArgs, ccBuilt>>

CcNext == BuildCoOccurrenceMatrix \/ CalculateCorrelations \/ LimitCorrelations

\* calculate_correlations has returned and main has not cut its list yet
C22_Returned == ccResult # NotCalculated /\ ~ccResult.limited

\* the commits that hold a file, both files
C22_Count(f) ==
    Cardinality({k \in 1..Len(ccArgs.commits) :
                    \E i \in 1..Len(ccArgs.commits[k]) : ccArgs.commits[k][i] = f})
C22_CoCount(f, g) ==
    Cardinality({k \in 1..Len(ccArgs.commits) :
                    /\ \E i \in 1..Len(ccArgs.commits[k]) : ccArgs.commits[k][i] = f
                    /\ \E i \in 1..Len(ccArgs.commits[k]) : ccArgs.commits[k][i] = g})
\* the pairs, in str order, that occur together in at least one commit
C22_Pairs ==
    {p \in {<<FileNames[i], FileNames[j]>> : i, j \in 1..Len(FileNames)} :
        FileRank(p[1]) < FileRank(p[2]) /\ C22_CoCount(p[1], p[2]) > 0}
C22_Expected(p) ==
    Ratio(C22_CoCount(p[1], p[2]), Min(C22_Count(p[1]), C22_Count(p[2])))
C22_Reported ==
    {<<ccResult.correlations[i].file_a, ccResult.correlations[i].file_b>> :
        i \in 1..Len(ccResult.correlations)}

\* C22: every pair of files that occur together has the correlation
\* co_count / min(count_a, count_b); the pairs reported, each once, are
\* exactly those whose correlation is at least the threshold, and the list
\* is in non-increasing order of correlation.
C22_Correlations ==
    C22_Returned =>
        /\ C22_Reported = {p \in C22_Pairs : RatioGeq(C22_Expected(p), ccArgs.threshold)}
        /\ Cardinality(C22_Reported) = Len(ccResult.correlations)
        /\ \A i \in 1..Len(ccResult.correlations) :
              LET c == ccResult.correlations[i]
              IN c.correlation = C22_Expected(<<c.file_a, c.file_b>>)
        /\ \A i, j \in 1..Len(ccResult.correlations) :
              i < j => RatioGeq(ccResult.correlations[i].correlation,
                                ccResult.correlations[j].correlation)

\* two pairs are reported with different correlations, the lower one equal
\* to the threshold
C22_Witness ==
    /\ C22_Returned
    /\ Len(ccResult.correlations) >= 2
    /\ RatioGt(ccResult.correlations[1].correlation,
               ccResult.correlations[Len(ccResult.correlations)].correlation)
    /\ \E i \in 1..Len(ccResult.correlations) :
          /\ RatioGeq(ccArgs.threshold, ccResult.correlations[i].correlation)
          /\ ccArgs.threshold.num > 0

(***************************************************************************)
(* git/search.py: search_items_by_fields.  Strings are sequences of        *)
(* characters.                                                             *)
(***************************************************************************)
MaxTermsLen == 4
MaxFields == 2

\* mutant: the comparison keeps the case
TermInField_caseSensitive(term, field) == FindSub(field, term) # 0
\* term_lower in field.lower()
TermInField(term, field) == FindSub(Lower(field), Lower(term)) # 0

\* `for field in fields: if term_lower in field.lower()`
RECURSIVE TermMatches(_, _)
TermMatches(term, fields) ==
    IF fields = <<>> THEN FALSE
    ELSE IF TermInField(term, Head(fields)) THEN TRUE
    ELSE TermMatches(term, Tail(fields))

\* the OR loop: True at the first term that matches a field
RECURSIVE AnyTermMatches(_, _)
AnyTermMatches(terms, fields) ==
    IF terms = <<>> THEN FALSE
    ELSE IF TermMatches(Head(terms), fields) THEN TRUE
    ELSE AnyTermMatches(Tail(terms), fields)

\* the AND loop: False at the first term that matches no field
RECURSIVE EveryTermMatches(_, _)
EveryTermMatches(terms, fields) ==
    IF terms = <<>> THEN TRUE
    ELSE IF ~TermMatches(Head(terms), fields) THEN FALSE
    ELSE EveryTermMatches(Tail(terms), fields)

search_items_by_fields(search_terms, logic, fields) ==
    IF search_terms = <<>> \/ Strip(search_terms) = <<>> THEN TRUE
    ELSE IF SplitWhitespace(Strip(search_terms)) = <<>> THEN TRUE
    ELSE IF logic = "OR"
    THEN AnyTermMatches(SplitWhitespace(Strip(search_terms)), fields)
    ELSE EveryTermMatches(SplitWhitespace(Strip(search_terms)), fields)

SearchAlphabet == {"a", "A", "b", " "}
FieldValues == {<<>>, <<"a">>, <<"b">>, <<"a", "b">>, <<"b", "A">>}
\* "or" is neither "OR" nor "AND"
SearchLogics == {"OR", "AND", "or"}

NoFieldSearch == [called |-> FALSE]
NotSearched == [searched |-> FALSE]

SrIdle == srArgs = NoFieldSearch /\ srResult = NotSearched

SrInit ==
    /\ srArgs \in [called : {TRUE},
                   search_terms : StringsUpTo(SearchAlphabet, MaxTermsLen),
                   logic : SearchLogics,
                   fields : ArraysUpTo(FieldValues, MaxFields)]
    /\ srResult = NotSearched

\* search_items_by_fields(search_terms, logic, *fields)
SearchItemsByFields ==
    /\ srArgs.called
    /\ srResult = NotSearched
    /\ srResult' = [searched |-> TRUE,
                    matched |-> search_items_by_fields(srArgs.search_terms,
                                                       srArgs.logic, srArgs.fields)]
    /\ UNCHANGED srArgs

SrNext == SearchItemsByFields

\* the terms: the maximal runs of non-whitespace characters
C23_Terms ==
    LET s == srArgs.search_terms
        solid(i, j) == \A k \in i..j : s[k] \notin Whitespace
        maximal(i, j) == /\ (i = 1 \/ s[i - 1] \in Whitespace)
                         /\ (j = Len(s) \/ s[j + 1] \in Whitespace)
    IN {SubSeq(s, i, j) : <<i, j>> \in
            {p \in (1..Len(s)) \X (1..Len(s)) :
                p[1] <= p[2] /\ solid(p[1], p[2]) /\ maximal(p[1], p[2])}}

\* term is a substring of field when case is ignored
C23_Within(term, field) ==
    \E i \in 1..(Len(field) - Len(term) + 1) :
        \A k \in 1..Len(term) : LowerChar(field[i + k - 1]) = LowerChar(term[k])
C23_Matches(term) ==
    \E f \in 1..Len(srArgs.fields) : C23_Within(term, srArgs.fields[f])

\* C23: empty or whitespace-only search terms match; otherwise OR matches
\* exactly when some term is within some field, and AND exactly when every
\* term is within some field, case ignored.
C23_SearchLogic ==
    (srResult # NotSearched /\ srArgs.logic \in {"OR", "AND"}) =>
        srResult.matched =
            IF C23_Terms = {} THEN TRUE
            ELSE IF srArgs.logic = "OR" THEN \E t \in C23_Terms : C23_Matches(t)
            ELSE \A t \in C23_Terms : C23_Matches(t)

\* an AND search matched with two terms that no single field holds, one of
\* them only when case is ignored
C23_Witness ==
    /\ srResult # NotSearched
    /\ srArgs.logic = "AND"
    /\ srResult.matched
    /\ Cardinality(C23_Terms) >= 2
    /\ \A f \in 1..Len(srArgs.fields) :
          \E t \in C23_Terms : ~C23_Within(t, srArgs.fields[f])
    /\ \E t \in C23_Terms :
          \A f \in 1..Len(srArgs.fields) : FindSub(srArgs.fields[f], t) = 0

\* the positions of the lines that start like a commit header
C24_HeaderLines ==
    {i \in 1..Len(logArgs.lines) : IsCommitHeader(RStripNewline(logArgs.lines[i]))}

\* the last line before the next header line
C24_BlockEnd(i) ==
    IF \E j \in C24_HeaderLines : j > i
    THEN (CHOOSE j \in C24_HeaderLines : j > i /\ \A k \in C24_HeaderLines : k > i => j <= k) - 1
    ELSE Len(logArgs.lines)

\* what the lines from one header line to the next one parse to on their own
C24_BlockCommits(i) ==
    parse_log_with_stats(SubSeq(logArgs.lines, i, C24_BlockEnd(i)),
                         logArgs.include_stats, logArgs.omit_body)

\* C24: the commits emitted belong to distinct header lines of the input, in
\* input order, and each is built from the lines between its own header
\* line and the next header line only.
C24_OneCommitPerHeader ==
    logPc = "done" =>
        \E S \in SUBSET C24_HeaderLines :
            /\ Cardinality(S) = Len(commits)
            /\ \A k \in 1..Len(commits) :
                  C24_BlockCommits(SortedSeq(S)[k]) = <<commits[k]>>


\* the state a 'worktree' line would start from if nothing read before it
\* were kept: branch, commit and locked as before the first line
C25_FreshBlock(st) ==
    [st EXCEPT !.current_branch = WtStart.current_branch,
               !.current_commit = WtStart.current_commit,
               !.current_locked = WtStart.current_locked]

C25_OwnLine(st, line, a) ==
    IF StartsWith(line, WorktreePrefix) THEN WtLine(C25_FreshBlock(st), line, a)
    ELSE WtLine(st, line, a)

RECURSIVE C25_OwnLoop(_, _, _, _)
C25_OwnLoop(st, lines, i, a) ==
    IF i > Len(lines) THEN st
    ELSE C25_OwnLoop(C25_OwnLine(st, lines[i], a), lines, i + 1, a)

\* the entries whose branch, commit and locked are read only between the
\* entry's own 'worktree' line and the next one
C25_OwnBlocks(a) == WtAppend(C25_OwnLoop(WtStart, SplitLines(a.porcelain_output), 1, a), a)

\* C25: the branch, commit and locked values of every WorktreeInfo returned
\* by parse_worktree_list come only from the lines after the entry's own
\* 'worktree' line and before the next 'worktree' line; nothing read in an
\* earlier block or before any 'worktree' line carries over.
C25_NoCarryOver ==
    wtResult # Pending => wtResult.worktrees = C25_OwnBlocks(wtArgs)


\* what the handler registered for the requested tool does with the request
C26_Handler == handle(mcpArgs.name, mcpArgs.arguments, mcpArgs.env)

\* the calls of subprocess.run in which hug was started: the argument list
\* and the directory it ran in
C26_Started(ran) ==
    LET entered == SelectSeq(ran, LAMBDA call : OsChdir(call.cwd).status = "returned")
    IN [i \in 1..Len(entered) |->
           [cmd |-> entered[i].cmd, dir |-> OsChdir(entered[i].cwd).value]]

\* the text call_tool returns reports a failure
C26_ReportsFailure(texts) ==
    texts[1][1] \in {"Error executing command:", "Error: file parameter is required"}

\* C26: for a registered tool name and any argument object, call_tool runs
\* hug with the argument list and in the working directory the registered
\* handler would, and reports success exactly when the handler does, also
\* for a cwd that does not exist or is not a directory.
C26_CallToolAsHandler ==
    (McpDone /\ mcpArgs.op = "call_tool" /\ mcpArgs.name \in RegisteredTools)
        => /\ C26_Started(mcpRan) = C26_Started(C26_Handler.ran)
           /\ C26_ReportsFailure(mcpResult.texts) = ~C26_Handler.result.success


\* C27: what get_commit_files_cached remembers for a commit is the result of
\* a git query that completed successfully, the files of that commit; a
\* query that failed or timed out is not remembered as an empty file set.
C27_CacheHoldsSuccessfulQueries ==
    depsArgs.called =>
        \A c \in DOMAIN filesCache : filesCache[c] = depsArgs.commitFiles[c]


\* neither cap of build_dependency_graph was reached: the loop did not stop
\* on processed_commits, and the queue, which holds fewer entries than there
\* are commits, was never full
C28_CapsNotReached ==
    /\ depsArgs.max_commits >= Cardinality(Commits)
    /\ processed_commits < depsArgs.max_commits

\* C28: when neither the max_commits cap nor the queue-size cap is reached,
\* the keys of the returned graph are exactly the root commit and the
\* commits reachable from it within `depth` links of the stored,
\* truncated related-commit lists.
C28_KeysAreReachable ==
    (depsPc = "done" /\ C28_CapsNotReached)
        => DOMAIN graph = ReachWithin(depsArgs.depth)

\* depth 2 with no cap in reach: c3 is not related to the root and is a key
\* because it is related to c2
C28_Witness ==
    /\ depsPc = "done" /\ C28_CapsNotReached
    /\ depsArgs.depth = 2
    /\ DOMAIN graph = Commits
    /\ "c3" \notin RelatedCommits(graph["c1"])
    /\ "c3" \in RelatedCommits(graph["c2"])


\* C29: the graph of build_dependency_graph has at most max_commits keys,
\* and every related-commit list stored in it has at most max_results
\* entries, whatever the index, the depth and the threshold are.
C29_GraphWithinCaps ==
    depsArgs.called =>
        /\ Cardinality(DOMAIN graph) <= depsArgs.max_commits
        /\ \A c \in DOMAIN graph : Len(graph[c]) <= depsArgs.max_results

\* both caps cut: the graph is returned with max_commits keys while commits
\* are still queued, and the root's list was cut to max_results
C29_Witness ==
    /\ depsPc = "done"
    /\ to_visit # <<>>
    /\ Cardinality(DOMAIN graph) = depsArgs.max_commits
    /\ Len(graph[depsArgs.root_commit]) = depsArgs.max_results
    /\ Cardinality(RelatedSet(depsArgs.root_commit,
                              depsArgs.commitFiles[depsArgs.root_commit],
                              depsArgs.file_to_commits, depsArgs.threshold))
          > depsArgs.max_results


\* a hug_h_files request, through the handler or through call_tool, for
\* which hug was run
C30_RanHFiles ==
    /\ McpDone /\ mcpArgs.op \in {"handle", "call_tool"}
    /\ mcpArgs.name = "hug_h_files"
    /\ mcpRan # <<>>

\* what follows "hug h files" in the command that was run
C30_Options == Slice(mcpRan[1].cmd, 4, Len(mcpRan[1].cmd))

\* the options before the "-p" that show_patch appends
C30_Selection ==
    IF mcpArgs.arguments.show_patch
    THEN Slice(C30_Options, 1, Len(C30_Options) - 1)
    ELSE C30_Options

\* how many of "-u", "-t <temporal>", "<commit>" and "<count>" the selection holds
C30_Chosen ==
    Cardinality({k \in {"upstream", "temporal", "commit", "count"} :
        CASE k = "upstream" -> C30_Selection = <<<<"-u">>>>
          [] k = "temporal" -> C30_Selection = <<<<"-t">>, mcpArgs.arguments.temporal.value>>
          [] k = "commit" -> C30_Selection = <<mcpArgs.arguments.commit.value>>
          [] k = "count" -> C30_Selection = <<Str(mcpArgs.arguments.count.value)>>})

\* C30: in the command hug_h_files generates at most one of "-u",
\* "-t <temporal>", "<commit>" and "<count>" appears, the first that is set
\* in the order upstream, temporal, commit, count, and "-p" ends the command
\* exactly when show_patch is set.
C30_HFilesExclusive ==
    C30_RanHFiles =>
        LET a == mcpArgs.arguments
        IN /\ C30_Chosen <= 1
           /\ a.upstream => C30_Selection = <<<<"-u">>>>
           /\ (~a.upstream /\ Truthy(a.temporal))
                 => C30_Selection = <<<<"-t">>, a.temporal.value>>
           /\ (~a.upstream /\ ~Truthy(a.temporal) /\ Truthy(a.commit))
                 => C30_Selection = <<a.commit.value>>
           /\ (~a.upstream /\ ~Truthy(a.temporal) /\ ~Truthy(a.commit)
               /\ TruthyCount(a.count))
                 => C30_Selection = <<Str(a.count.value)>>
           /\ (~a.upstream /\ ~Truthy(a.temporal) /\ ~Truthy(a.commit)
               /\ ~TruthyCount(a.count))
                 => C30_Selection = <<>>
           /\ a.show_patch <=> (C30_Options # <<>> /\ C30_Options[Len(C30_Options)] = <<"-p">>)

\* temporal, commit and count are all given with show_patch, upstream is not:
\* the command is hug h files -t <temporal> -p
C30_Witness ==
    /\ C30_RanHFiles
    /\ mcpArgs.op = "call_tool"
    /\ ~mcpArgs.arguments.upstream
    /\ Truthy(mcpArgs.arguments.temporal)
    /\ Truthy(mcpArgs.arguments.commit)
    /\ TruthyCount(mcpArgs.arguments.count)
    /\ mcpArgs.arguments.show_patch
    /\ C30_Options = <<<<"-t">>, mcpArgs.arguments.temporal.value, <<"-p">>>>

(***************************************************************************)
(* Specifications                                                          *)
(***************************************************************************)
InitParse == PuiInit /\ SelIdle /\ FltIdle /\ DepsIdle /\ LogIdle /\ RunIdle /\ WtIdle /\ McpIdle /\ CsIdle /\ BrIdle /\ CcIdle /\ SrIdle
NextParse == ParseUserInput /\ UNCHANGED <<selVars, fltVars, depsVars, logVars, runVars, wtVars, mcpVars, csVars, brVars, ccVars, srVars>>
SpecParse == InitParse /\ [][NextParse]_vars

InitSelect == SelInit /\ PuiIdle /\ FltIdle /\ DepsIdle /\ LogIdle /\ RunIdle /\ WtIdle /\ McpIdle /\ CsIdle /\ BrIdle /\ CcIdle /\ SrIdle
NextSelect == MultiSelectBranches /\ UNCHANGED <<puiVars, fltVars, depsVars, logVars, runVars, wtVars, mcpVars, csVars, brVars, ccVars, srVars>>
SpecSelect == InitSelect /\ [][NextSelect]_vars

InitFilter == FltInit /\ PuiIdle /\ SelIdle /\ DepsIdle /\ LogIdle /\ RunIdle /\ WtIdle /\ McpIdle /\ CsIdle /\ BrIdle /\ CcIdle /\ SrIdle
NextFilter == FilterBranches /\ UNCHANGED <<puiVars, selVars, depsVars, logVars, runVars, wtVars, mcpVars, csVars, brVars, ccVars, srVars>>
SpecFilter == InitFilter /\ [][NextFilter]_vars

InitDeps == DepsInit /\ PuiIdle /\ SelIdle /\ FltIdle /\ LogIdle /\ RunIdle /\ WtIdle /\ McpIdle /\ CsIdle /\ BrIdle /\ CcIdle /\ SrIdle
NextDeps == DepsNext /\ UNCHANGED <<puiVars, selVars, fltVars, logVars, runVars, wtVars, mcpVars, csVars, brVars, ccVars, srVars>>
SpecDeps == InitDeps /\ [][NextDeps]_vars
\* the interpreter keeps running: a step that stays possible is taken
SpecDepsFair == SpecDeps /\ WF_vars(NextDeps)

InitLog == LogInit /\ PuiIdle /\ SelIdle /\ FltIdle /\ DepsIdle /\ RunIdle /\ WtIdle /\ McpIdle /\ CsIdle /\ BrIdle /\ CcIdle /\ SrIdle
NextLog == LogNext /\ UNCHANGED <<puiVars, selVars, fltVars, depsVars, runVars, wtVars, mcpVars, csVars, brVars, ccVars, srVars>>
SpecLog == InitLog /\ [][NextLog]_vars

InitRun == RunInit /\ PuiIdle /\ SelIdle /\ FltIdle /\ DepsIdle /\ LogIdle /\ WtIdle /\ McpIdle /\ CsIdle /\ BrIdle /\ CcIdle /\ SrIdle
NextRun == RunNext /\ UNCHANGED <<puiVars, selVars, fltVars, depsVars, logVars, wtVars, mcpVars, csVars, brVars, ccVars, srVars>>
SpecRun == InitRun /\ [][NextRun]_vars

InitWorktree == WtInit /\ PuiIdle /\ SelIdle /\ FltIdle /\ DepsIdle /\ LogIdle /\ RunIdle /\ McpIdle /\ CsIdle /\ BrIdle /\ CcIdle /\ SrIdle
NextWorktree == ParseWorktreeList /\ UNCHANGED <<puiVars, selVars, fltVars, depsVars, logVars, runVars, mcpVars, csVars, brVars, ccVars, srVars>>
SpecWorktree == InitWorktree /\ [][NextWorktree]_vars

InitMcp == McpInit /\ PuiIdle /\ SelIdle /\ FltIdle /\ DepsIdle /\ LogIdle /\ RunIdle /\ WtIdle /\ CsIdle /\ BrIdle /\ CcIdle /\ SrIdle
NextMcp == McpNext /\ UNCHANGED <<puiVars, selVars, fltVars, depsVars, logVars, runVars, wtVars, csVars, brVars, ccVars, srVars>>
SpecMcp == InitMcp /\ [][NextMcp]_vars

InitSearch == CsInit /\ PuiIdle /\ SelIdle /\ FltIdle /\ DepsIdle /\ LogIdle /\ RunIdle /\ WtIdle /\ McpIdle /\ BrIdle /\ CcIdle /\ SrIdle
NextSearch == CsNext /\ UNCHANGED <<puiVars, selVars, fltVars, depsVars, logVars, runVars, wtVars, mcpVars, brVars, ccVars, srVars>>
SpecSearch == InitSearch /\ [][NextSearch]_vars

InitBranch == BrInit /\ PuiIdle /\ SelIdle /\ FltIdle /\ DepsIdle /\ LogIdle /\ RunIdle /\ WtIdle /\ McpIdle /\ CsIdle /\ CcIdle /\ SrIdle
NextBranch == BrNext /\ UNCHANGED <<puiVars, selVars, fltVars, depsVars, logVars, runVars, wtVars, mcpVars, csVars, ccVars, srVars>>
SpecBranch == InitBranch /\ [][NextBranch]_vars

InitCorrelate == CcInit /\ PuiIdle /\ SelIdle /\ FltIdle /\ DepsIdle /\ LogIdle /\ RunIdle /\ WtIdle /\ McpIdle /\ CsIdle /\ BrIdle /\ SrIdle
NextCorrelate == CcNext /\ UNCHANGED <<puiVars, selVars, fltVars, depsVars, logVars, runVars, wtVars, mcpVars, csVars, brVars, srVars>>
SpecCorrelate == InitCorrelate /\ [][NextCorrelate]_vars

InitFieldSearch == SrInit /\ PuiIdle /\ SelIdle /\ FltIdle /\ DepsIdle /\ LogIdle /\ RunIdle /\ WtIdle /\ McpIdle /\ CsIdle /\ BrIdle /\ CcIdle
NextFieldSearch == SrNext /\ UNCHANGED <<puiVars, selVars, fltVars, depsVars, logVars, runVars, wtVars, mcpVars, csVars, brVars, ccVars>>
SpecFieldSearch == InitFieldSearch /\ [][NextFieldSearch]_vars

====
